---- MODULE Spec2Model ----
(***************************************************************************)
(* The XML pre-serializer of xmlbuilder2 (src/writers/BaseWriter.ts) as a  *)
(* state machine.  One serializeNode call is a depth-first walk of a DOM   *)
(* tree; the walk is modelled with an explicit stack of frames, one frame  *)
(* per active _serialize* call, and one step per entered node or resumed   *)
(* child loop.  The sink callbacks (beginElement, attributes, text, ...)   *)
(* append to the event log `out`.                                          *)
(*                                                                         *)
(* Strings are sequences of character tokens.  A token is a one-character  *)
(* string, except the tokens that stand for a whole namespace URI (a run of*)
(* ordinary characters that no check and no escaping rule looks into) and  *)
(* the token that names an illegal control character.  JavaScript's null   *)
(* is the one-token string `null`, which is no string of any tree.         *)
(***************************************************************************)
EXTENDS Integers, Sequences, FiniteSets, TLC

VARIABLES
  tree,           \* the node handed to serializeNode, with its subtree
  hasNamespaces,  \* node._nodeDocument._hasNamespaces
  requireWellFormed,
  noDoubleEncoding,
  status,         \* "idle" | "running" | "throwing" | "returned" | "failed"
  stack,          \* the active _serialize* calls, innermost last
  heap,           \* the NamespacePrefixMap objects created so far
  prefixIndex,    \* prefixIndex.value, shared by the whole call
  level,          \* this.level
  currentNode,    \* this.currentNode, as a path from the root
  out,            \* the sink events of the current call
  exception,      \* the exception in flight or delivered to the caller
  generated,      \* history: the _generatePrefix calls of the current call
  raised,         \* history: the exception as first thrown in the current call
  calls,          \* history: the outcomes of the completed calls
  otherOps,       \* history: a builder method other than dtd(), ele() and set() was called
  inheritNS       \* the builder option inheritNS of the document

vars == <<tree, hasNamespaces, requireWellFormed, noDoubleEncoding, status,
          stack, heap, prefixIndex, level, currentNode, out, exception,
          generated, raised, calls, otherOps, inheritNS>>

----------------------------------------------------------------------------
(* Strings and the constants of @oozcitak/infra                            *)

null == <<"null">>
EmptyString == <<>>

XML_NS == <<"http://www.w3.org/XML/1998/namespace">>
XMLNS_NS == <<"http://www.w3.org/2000/xmlns/">>
HTML_NS == <<"http://www.w3.org/1999/xhtml">>

\* s.indexOf(c) !== -1 for a one-character c
Contains(s, c) == \E i \in 1..Len(s) : s[i] = c

\* s.indexOf(sub) !== -1
ContainsSub(s, sub) ==
  \E i \in 1..(Len(s) - Len(sub) + 1) : SubSeq(s, i, i + Len(sub) - 1) = sub

\* s.endsWith(c) for a one-character c
EndsWith(s, c) == Len(s) > 0 /\ s[Len(s)] = c

\* `x || null` and `x || ''` on a string or null
OrNull(x) == IF x = EmptyString \/ x = null THEN null ELSE x
OrEmpty(x) == IF x = EmptyString \/ x = null THEN EmptyString ELSE x

DigitChars == <<"0", "1", "2", "3", "4", "5", "6", "7", "8", "9">>

\* Number.prototype.toString() of a non-negative integer
RECURSIVE NumberToString(_)
NumberToString(n) ==
  IF n < 10 THEN <<DigitChars[n + 1]>>
  ELSE NumberToString(n \div 10) \o <<DigitChars[(n % 10) + 1]>>

----------------------------------------------------------------------------
(* The grammar predicates of @oozcitak/dom/lib/algorithm, over the         *)
(* characters the trees of this model are written in.                      *)

Letters == {"a", "b", "c", "d", "e", "f", "g", "h", "i", "j", "k", "l", "m",
            "n", "o", "p", "q", "r", "s", "t", "u", "v", "w", "x", "y", "z",
            "A", "B", "C", "D", "E", "F", "G", "H", "I", "J", "K", "L", "M",
            "N", "O", "P", "Q", "R", "S", "T", "U", "V", "W", "X", "Y", "Z"}
Digits == {"0", "1", "2", "3", "4", "5", "6", "7", "8", "9"}
NameStartChars == Letters \cup {":", "_"}
NameChars == NameStartChars \cup Digits \cup {"-", "."}

\* U+0001, outside the Char production of XML 1.0
IllegalChar == "U+0001"
\* The class \s of a JavaScript regular expression (the complement of \S):
\* space, tab, line feed, carriage return, form feed, vertical tab (U+000B),
\* no-break space (U+00A0) and the other Unicode spaces and line separators
WhiteSpace ==
  {" ", "\t", "\n", "\r", "\f", "U+000B", "U+00A0", "U+1680",
   "U+2000", "U+2001", "U+2002", "U+2003", "U+2004", "U+2005", "U+2006",
   "U+2007", "U+2008", "U+2009", "U+200A", "U+2028", "U+2029", "U+202F",
   "U+205F", "U+3000", "U+FEFF"}

xml_isName(s) ==
  /\ Len(s) > 0
  /\ s[1] \in NameStartChars
  /\ \A i \in 2..Len(s) : s[i] \in NameChars

\* Form feed and vertical tab are outside the Char production as well
xml_isLegalChar(s) == \A i \in 1..Len(s) : s[i] \notin {IllegalChar, "\f", "U+000B"}

\* PubidChar ::= #x20 | #xD | #xA | [a-zA-Z0-9] | [-'()+,./:=?;!*#@$_%]
PubidChars == Letters \cup Digits \cup
  {" ", "\r", "\n", "-", "'", "(", ")", "+", ",", ".", "/", ":", "=", "?",
   ";", "!", "*", "#", "@", "$", "_", "%"}

xml_isPubidChar(s) == \A i \in 1..Len(s) : s[i] \in PubidChars

----------------------------------------------------------------------------
(* NamespacePrefixMap and LocalNameSet of @oozcitak/dom/lib/serializer.    *)
(* A map holds, for each namespace seen (null included), the list of the   *)
(* prefixes added for it, oldest first.                                     *)

NewNamespacePrefixMap == [ns \in {} |-> <<>>]

\* map.set(prefix, ns): the prefix is added to the end of ns's list
MapSet(map, prefix, ns) ==
  IF ns \in DOMAIN map
    THEN [map EXCEPT ![ns] = Append(@, prefix)]
    ELSE [k \in (DOMAIN map) \cup {ns} |-> IF k = ns THEN <<prefix>> ELSE map[k]]

\* map.has(prefix, ns)
MapHas(map, prefix, ns) ==
  ns \in DOMAIN map /\ \E i \in 1..Len(map[ns]) : map[ns][i] = prefix

\* map.hasPrefix(prefix)
MapHasPrefix(map, prefix) == \E ns \in DOMAIN map : MapHas(map, prefix, ns)

\* map.get without the preference: always the prefix added last
MapGetLast(map, preferredPrefix, ns) ==
  IF ns \notin DOMAIN map \/ Len(map[ns]) = 0 THEN null
  ELSE map[ns][Len(map[ns])]

\* map.get(preferredPrefix, ns): the preferred prefix when ns's list holds
\* it, else the last prefix of the list, else null
MapGet(map, preferredPrefix, ns) ==
  IF ns \notin DOMAIN map \/ Len(map[ns]) = 0 THEN null
  ELSE IF \E i \in 1..Len(map[ns]) : map[ns][i] = preferredPrefix
    THEN preferredPrefix
    ELSE map[ns][Len(map[ns])]

\* map.copy(): a new object with the same lists
MapCopy(map) == [ns \in DOMAIN map |-> map[ns]]

\* LocalNameSet: a set of (namespaceURI, localName) pairs
NewLocalNameSet == {}
LocalNameSetHas(set, ns, localName) == <<ns, localName>> \in set
LocalNameSetSet(set, ns, localName) == set \cup {<<ns, localName>>}

----------------------------------------------------------------------------
(* Plain JavaScript objects used as maps ({} literals).  `key in obj` is   *)
(* also true of the properties every object inherits.                      *)

ObjectPrototypeKeys ==
  { <<"c","o","n","s","t","r","u","c","t","o","r">>,
    <<"h","a","s","O","w","n","P","r","o","p","e","r","t","y">>,
    <<"i","s","P","r","o","t","o","t","y","p","e","O","f">>,
    <<"p","r","o","p","e","r","t","y","I","s","E","n","u","m","e","r","a","b","l","e">>,
    <<"t","o","L","o","c","a","l","e","S","t","r","i","n","g">>,
    <<"t","o","S","t","r","i","n","g">>,
    <<"v","a","l","u","e","O","f">>,
    <<"_","_","p","r","o","t","o","_","_">>,
    <<"_","_","d","e","f","i","n","e","G","e","t","t","e","r","_","_">>,
    <<"_","_","d","e","f","i","n","e","S","e","t","t","e","r","_","_">>,
    <<"_","_","l","o","o","k","u","p","G","e","t","t","e","r","_","_">>,
    <<"_","_","l","o","o","k","u","p","S","e","t","t","e","r","_","_">> }

NewObject == [k \in {} |-> <<>>]

\* key in obj
InObject(key, obj) == key \in DOMAIN obj \/ key \in ObjectPrototypeKeys

\* obj[key] !== value (an inherited property is a function, never a string)
ObjectValueDiffers(obj, key, value) ==
  IF key \in DOMAIN obj THEN obj[key] # value ELSE TRUE

\* The key whose assignment runs the setter every object inherits
ProtoKey == <<"_","_","p","r","o","t","o","_","_">>

\* obj[key] = value, for a value that is a string or a boolean: under the key
\* __proto__ the inherited setter ignores such a value and stores nothing
ObjectSet(obj, key, value) ==
  IF key = ProtoKey
    THEN obj
    ELSE [k \in (DOMAIN obj) \cup {key} |-> IF k = key THEN value ELSE obj[k]]

----------------------------------------------------------------------------
(* Character escaping                                                      *)

Amp == <<"&", "a", "m", "p", ";">>
Lt == <<"&", "l", "t", ";">>
Gt == <<"&", "g", "t", ";">>
Quot == <<"&", "q", "u", "o", "t", ";">>
TabRef == <<"&", "#", "x", "9", ";">>
LfRef == <<"&", "#", "x", "A", ";">>
CrRef == <<"&", "#", "x", "D", ";">>

RECURSIVE Flatten(_)
Flatten(ss) == IF Len(ss) = 0 THEN <<>> ELSE Head(ss) \o Flatten(Tail(ss))

\* The regular expression &\S+; matches at position i of s
EntityAhead(s, i) ==
  /\ s[i] = "&"
  /\ \E j \in (i + 2)..Len(s) :
       /\ s[j] = ";"
       /\ \A k \in (i + 1)..(j - 1) : s[k] \notin WhiteSpace

\* The per-character loop of _serializeText without its case for ">"
EscapeTextCharGtKept(s, i) ==
  CASE s[i] = "&" -> Amp
    [] s[i] = "<" -> Lt
    [] OTHER -> <<s[i]>>

\* _serializeText, lines 939-949: the per-character loop
EscapeTextChar(s, i) ==
  CASE s[i] = "&" -> Amp
    [] s[i] = "<" -> Lt
    [] s[i] = ">" -> Gt
    [] OTHER -> <<s[i]>>

\* _serializeText, lines 934-937: the chain of replace() calls.  Each call
\* rewrites single characters and no replacement text holds a character a
\* later call rewrites, so the chain is a map over the characters of s.
EscapeTextCharNDE(s, i) ==
  CASE s[i] = "&" /\ ~EntityAhead(s, i) -> Amp
    [] s[i] = "<" -> Lt
    [] s[i] = ">" -> Gt
    [] s[i] = "\r" -> CrRef
    [] OTHER -> <<s[i]>>

EscapeText(s, nde) ==
  Flatten([i \in 1..Len(s) |->
             IF nde THEN EscapeTextCharNDE(s, i) ELSE EscapeTextChar(s, i)])

\* _serializeAttributeValue, lines 1626-1638
EscapeAttrChar(s, i) ==
  CASE s[i] = "\"" -> Quot
    [] s[i] = "&" -> Amp
    [] s[i] = "<" -> Lt
    [] s[i] = ">" -> Gt
    [] OTHER -> <<s[i]>>

\* The replace() chain of _serializeAttributeValue without its call for \n
EscapeAttrCharNDELfKept(s, i) ==
  CASE s[i] = "&" /\ ~EntityAhead(s, i) -> Amp
    [] s[i] = "<" -> Lt
    [] s[i] = "\"" -> Quot
    [] s[i] = "\t" -> TabRef
    [] s[i] = "\r" -> CrRef
    [] OTHER -> <<s[i]>>

\* _serializeAttributeValue, lines 1618-1623
EscapeAttrCharNDE(s, i) ==
  CASE s[i] = "&" /\ ~EntityAhead(s, i) -> Amp
    [] s[i] = "<" -> Lt
    [] s[i] = "\"" -> Quot
    [] s[i] = "\t" -> TabRef
    [] s[i] = "\n" -> LfRef
    [] s[i] = "\r" -> CrRef
    [] OTHER -> <<s[i]>>

EscapeAttr(s, nde) ==
  Flatten([i \in 1..Len(s) |->
             IF nde THEN EscapeAttrCharNDE(s, i) ELSE EscapeAttrChar(s, i)])

NoError == "none"

\* _serializeAttributeValue: [err, value]
_serializeAttributeValue(value, rwf, nde) ==
  IF rwf /\ value # null /\ ~xml_isLegalChar(value)
    THEN [err |-> "Invalid characters in attribute value.", value |-> EmptyString]
  ELSE IF value = null
    THEN [err |-> NoError, value |-> EmptyString]
  ELSE [err |-> NoError, value |-> EscapeAttr(value, nde)]

----------------------------------------------------------------------------
(* Namespace bookkeeping of one element                                    *)

\* _generatePrefix with the index passed by value: the increment is lost
_generatePrefixByValue(newNamespace, prefixMap, index) ==
  LET generatedPrefix == <<"n", "s">> \o NumberToString(index)
  IN  [prefix |-> generatedPrefix,
       index  |-> index,
       map    |-> MapSet(prefixMap, generatedPrefix, newNamespace)]

\* _generatePrefix: "ns" + prefixIndex.value, the index incremented, the
\* prefix added to the map
_generatePrefix(newNamespace, prefixMap, index) ==
  LET generatedPrefix == <<"n", "s">> \o NumberToString(index)
  IN  [prefix |-> generatedPrefix,
       index  |-> index + 1,
       map    |-> MapSet(prefixMap, generatedPrefix, newNamespace)]

\* One iteration of the loop of _recordNamespaceInformation.
\* st = [map, local, default]
RecordAttr(attr, st) ==
  LET attributeNamespace == attr[1]
      attributePrefix == attr[2]
      prefixDefinition == attr[3]
      namespaceDefinition == IF attr[4] = EmptyString THEN null ELSE attr[4]
  IN  IF attributeNamespace # XMLNS_NS THEN st
      ELSE IF attributePrefix = null THEN [st EXCEPT !.default = attr[4]]
      ELSE IF attr[4] = XML_NS THEN st
      ELSE IF MapHas(st.map, prefixDefinition, namespaceDefinition) THEN st
      ELSE [st EXCEPT
              !.map = MapSet(@, prefixDefinition, namespaceDefinition),
              !.local = ObjectSet(@, prefixDefinition, OrEmpty(namespaceDefinition))]

RECURSIVE RecordLoop(_, _, _)
RecordLoop(attrs, i, st) ==
  IF i > Len(attrs) THEN st
  ELSE RecordLoop(attrs, i + 1, RecordAttr(attrs[i], st))

\* _recordNamespaceInformation(node, map, localPrefixesMap):
\* [map, local, default]
_recordNamespaceInformation(node, map) ==
  RecordLoop(node.attributes, 1,
             [map |-> map, local |-> NewObject, default |-> null])

----------------------------------------------------------------------------
(* Attributes.  An emitted attribute is the tuple                           *)
(* <<namespaceURI, prefix, localName, value>> of the source; an attribute   *)
(* of the tree is a tuple of the same shape.                                *)

Xmlns == <<"x", "m", "l", "n", "s">>
Xml == <<"x", "m", "l">>

ErrDuplicate == "Element contains duplicate attributes (well-formed required)."
ErrXmlnsReserved == "XMLNS namespace is reserved (well-formed required)."
ErrUndeclare == "Namespace prefix declarations cannot be used to undeclare a namespace (well-formed required)."
ErrAttrName == "Attribute local name contains invalid characters (well-formed required)."
ErrNodeName == "Node local name contains invalid characters (well-formed required)."
ErrXmlnsPrefix == "An element cannot have the 'xmlns' prefix (well-formed required)."
ErrNoDocumentElement == "Missing document element (well-formed required)."
ErrComment == "Comment data contains invalid characters (well-formed required)."
ErrText == "Text data contains invalid characters (well-formed required)."
ErrPubId == "DocType public identifier does not match PubidChar construct (well-formed required)."
ErrSysId == "DocType system identifier contains invalid characters (well-formed required)."
ErrPITarget == "Processing instruction target contains invalid characters (well-formed required)."
ErrPIData == "Processing instruction data contains invalid characters (well-formed required)."
ErrCData == "CDATA contains invalid characters (well-formed required)."
\* The unknown node kind reported with the message of a malformed name
ErrUnknownAsNodeName(nodeType) == ErrNodeName

ErrUnknownNode(nodeType) == "Unknown node type: " \o nodeType

\* Lines 1335-1336 (and 1159-1160): push the attribute itself.
PushAttr(st, ns, prefix, attr, rwf, nde) ==
  LET v == _serializeAttributeValue(attr[4], rwf, nde)
  IN  IF v.err # NoError THEN [st EXCEPT !.err = v.err]
      ELSE [st EXCEPT !.result = Append(@, <<ns, prefix, attr[3], v.value>>)]

\* Lines 1308-1336: the name check and the push of the attribute.
CheckAndPushAttr(st, candidatePrefix, attr, rwf, nde) ==
  IF rwf /\ (Contains(attr[3], ":") \/ ~xml_isName(attr[3]) \/
             (attr[3] = Xmlns /\ attr[1] = null))
    THEN [st EXCEPT !.err = ErrAttrName]
    ELSE PushAttr(st, attr[1], candidatePrefix, attr, rwf, nde)

\* Lines 1198-1259: an attribute in the XMLNS namespace.
XmlnsAttr(st, attr, localPrefixesMap, ignoreNamespaceDefinitionAttribute, rwf, nde) ==
  LET candidatePrefix == MapGet(st.map, attr[2], attr[1])
  IN  IF \/ attr[4] = XML_NS
         \/ (attr[2] = null /\ ignoreNamespaceDefinitionAttribute)
         \/ /\ attr[2] # null
            /\ (~InObject(attr[3], localPrefixesMap) \/
                ObjectValueDiffers(localPrefixesMap, attr[3], attr[4]))
            /\ MapHas(st.map, attr[3], attr[4])
        THEN st
      ELSE IF rwf /\ attr[4] = XMLNS_NS THEN [st EXCEPT !.err = ErrXmlnsReserved]
      ELSE IF rwf /\ attr[4] = EmptyString THEN [st EXCEPT !.err = ErrUndeclare]
      ELSE CheckAndPushAttr(st, IF attr[2] = Xmlns THEN Xmlns ELSE candidatePrefix,
                            attr, rwf, nde)

\* Lines 1269-1300: an attribute in another namespace for which the map
\* holds no prefix: its own prefix or a generated one, and a declaration.
DeclareForAttr(st, attr, rwf, nde) ==
  LET own == attr[2] # null /\
             (~MapHasPrefix(st.map, attr[2]) \/ MapHas(st.map, attr[2], attr[1]))
      gen == _generatePrefix(attr[1], st.map, st.index)
      candidatePrefix == IF own THEN attr[2] ELSE gen.prefix
      st1 == IF own THEN st
             ELSE [st EXCEPT !.map = gen.map, !.index = gen.index,
                             !.gen = Append(@, [prefix |-> gen.prefix,
                                                ns |-> attr[1],
                                                before |-> st.map])]
      v == _serializeAttributeValue(attr[1], rwf, nde)
  IN  IF v.err # NoError THEN [st1 EXCEPT !.err = v.err]
      ELSE CheckAndPushAttr(
             [st1 EXCEPT !.result = Append(@, <<null, Xmlns, candidatePrefix, v.value>>)],
             candidatePrefix, attr, rwf, nde)

\* One iteration of the loop of _serializeAttributesNS (lines 1156-1337).
\* st = [result, map, index, set, gen, err]
AttrNS(st, attr, localPrefixesMap, ignoreNamespaceDefinitionAttribute, rwf, nde) ==
  IF ~rwf /\ ~ignoreNamespaceDefinitionAttribute /\ attr[1] = null
    THEN PushAttr(st, null, null, attr, rwf, nde)
  ELSE IF rwf /\ LocalNameSetHas(st.set, attr[1], attr[3])
    THEN [st EXCEPT !.err = ErrDuplicate]
  ELSE
    LET st1 == IF rwf THEN [st EXCEPT !.set = LocalNameSetSet(@, attr[1], attr[3])]
               ELSE st
        candidatePrefix == MapGet(st1.map, attr[2], attr[1])
    IN  IF attr[1] = null THEN CheckAndPushAttr(st1, null, attr, rwf, nde)
        ELSE IF attr[1] = XMLNS_NS
          THEN XmlnsAttr(st1, attr, localPrefixesMap,
                         ignoreNamespaceDefinitionAttribute, rwf, nde)
        ELSE IF candidatePrefix = null THEN DeclareForAttr(st1, attr, rwf, nde)
        ELSE CheckAndPushAttr(st1, candidatePrefix, attr, rwf, nde)

RECURSIVE AttrNSLoop(_, _, _, _, _, _, _)
AttrNSLoop(attrs, i, st, localPrefixesMap, ignore, rwf, nde) ==
  IF i > Len(attrs) \/ st.err # NoError THEN st
  ELSE AttrNSLoop(attrs, i + 1,
                  AttrNS(st, attrs[i], localPrefixesMap, ignore, rwf, nde),
                  localPrefixesMap, ignore, rwf, nde)

\* _serializeAttributesNS that never skips a default declaration for the
\* ignore flag
_serializeAttributesNSKeepingDefault(node, map, index, localPrefixesMap, ignoreNamespaceDefinitionAttribute, rwf, nde) ==
  AttrNSLoop(node.attributes, 1,
             [result |-> <<>>, map |-> map, index |-> index,
              set |-> NewLocalNameSet, gen |-> <<>>, err |-> NoError],
             localPrefixesMap, FALSE, rwf, nde)

\* _serializeAttributesNS: [result, map, index, set, gen, err]
_serializeAttributesNS(node, map, index, localPrefixesMap, ignoreNamespaceDefinitionAttribute, rwf, nde) ==
  AttrNSLoop(node.attributes, 1,
             [result |-> <<>>, map |-> map, index |-> index,
              set |-> NewLocalNameSet, gen |-> <<>>, err |-> NoError],
             localPrefixesMap, ignoreNamespaceDefinitionAttribute, rwf, nde)

\* The loop of _serializeAttributes without its duplicate check
AttrPlainUnchecked(st, attr, rwf, nde) ==
  IF rwf /\ (Contains(attr[3], ":") \/ ~xml_isName(attr[3]))
    THEN [st EXCEPT !.err = ErrAttrName]
    ELSE PushAttr(st, null, null, attr, rwf, nde)

\* One iteration of the loop of _serializeAttributes (lines 1372-1430).
\* st = [result, set, err]; set is the plain object localNameSet
AttrPlain(st, attr, rwf, nde) ==
  IF ~rwf THEN PushAttr(st, null, null, attr, rwf, nde)
  ELSE IF InObject(attr[3], st.set) THEN [st EXCEPT !.err = ErrDuplicate]
  ELSE
    LET st1 == [st EXCEPT !.set = ObjectSet(@, attr[3], <<"true">>)]
    IN  IF Contains(attr[3], ":") \/ ~xml_isName(attr[3])
          THEN [st1 EXCEPT !.err = ErrAttrName]
          ELSE PushAttr(st1, null, null, attr, rwf, nde)

RECURSIVE AttrPlainLoop(_, _, _, _, _)
AttrPlainLoop(attrs, i, st, rwf, nde) ==
  IF i > Len(attrs) \/ st.err # NoError THEN st
  ELSE AttrPlainLoop(attrs, i + 1, AttrPlain(st, attrs[i], rwf, nde), rwf, nde)

\* _serializeAttributes: [result, set, err]
_serializeAttributes(node, rwf, nde) ==
  AttrPlainLoop(node.attributes, 1,
                [result |-> <<>>, set |-> NewObject, err |-> NoError], rwf, nde)

----------------------------------------------------------------------------
(* Sink events.  Each is a record whose `ev` names the callback.            *)

_VoidElementNames ==
  { <<"a","r","e","a">>,
    <<"b","a","s","e">>,
    <<"b","a","s","e","f","o","n","t">>,
    <<"b","g","s","o","u","n","d">>,
    <<"b","r">>,
    <<"c","o","l">>,
    <<"e","m","b","e","d">>,
    <<"f","r","a","m","e">>,
    <<"h","r">>,
    <<"i","m","g">>,
    <<"i","n","p","u","t">>,
    <<"k","e","y","g","e","n">>,
    <<"l","i","n","k">>,
    <<"m","e","n","u","i","t","e","m">>,
    <<"m","e","t","a">>,
    <<"p","a","r","a","m">>,
    <<"s","o","u","r","c","e">>,
    <<"t","r","a","c","k">>,
    <<"w","b","r">> }

TemplateName == <<"t","e","m","p","l","a","t","e">>

EvBeginElement(name) == [ev |-> "beginElement", name |-> name]
EvOpenTagBegin(name) == [ev |-> "openTagBegin", name |-> name]
EvAttributes(attributes) == [ev |-> "attributes", attributes |-> attributes]
EvOpenTagEnd(name, selfClosing, voidElement) ==
  [ev |-> "openTagEnd", name |-> name, selfClosing |-> selfClosing,
   voidElement |-> voidElement]
EvCloseTag(name) == [ev |-> "closeTag", name |-> name]
EvEndElement(name) == [ev |-> "endElement", name |-> name]
EvComment(data) == [ev |-> "comment", data |-> data]
EvText(data) == [ev |-> "text", data |-> data]
EvCData(data) == [ev |-> "cdata", data |-> data]
EvInstruction(target, data) == [ev |-> "instruction", target |-> target, data |-> data]
EvDocType(name, publicId, systemId) ==
  [ev |-> "docType", name |-> name, publicId |-> publicId, systemId |-> systemId]

----------------------------------------------------------------------------
(* Elements                                                                *)

\* The open tag always ended with ">" and a close tag owed
OpenTagEndNeverSelfClosing(node, qualifiedName, isHTML) ==
  [events |-> <<EvOpenTagEnd(qualifiedName, FALSE, FALSE)>>, skipEndTag |-> FALSE]

\* Lines 606-618 and 755-761: the end of the open tag.
\* [events, skipEndTag]
OpenTagEnd(node, qualifiedName, isHTML) ==
  IF isHTML /\ Len(node.childNodes) = 0 /\ node.localName \in _VoidElementNames
    THEN [events |-> <<EvOpenTagEnd(qualifiedName, TRUE, TRUE), EvEndElement(qualifiedName)>>,
          skipEndTag |-> TRUE]
  ELSE IF ~isHTML /\ Len(node.childNodes) = 0
    THEN [events |-> <<EvOpenTagEnd(qualifiedName, TRUE, FALSE), EvEndElement(qualifiedName)>>,
          skipEndTag |-> TRUE]
  ELSE [events |-> <<EvOpenTagEnd(qualifiedName, FALSE, FALSE)>>, skipEndTag |-> FALSE]

\* The declaration left out: the element keeps its bare name and nothing
\* says which namespace it is in
KeepDefault(base, ns, decl) ==
  [base EXCEPT !.ignore = TRUE, !.inheritedNS = ns]

\* Lines 555-566 (step 12.6): an element without a prefix whose namespace
\* is not the one in scope declares it as the default namespace.
\* decl is the serialized value of ns.
DeclareDefault(base, ns, decl) ==
  [base EXCEPT
     !.ignore = TRUE,
     !.inheritedNS = ns,
     !.err = decl.err,
     !.attributes = IF decl.err = NoError
                      THEN << <<null, null, Xmlns, decl.value>> >> ELSE <<>>]

\* The name of step 11 for every element, whatever the context namespace,
\* without the test of the prefix xmlns
ElementNameNSSameContext(node, namespace, rec, index, rwf, nde) ==
  [err |-> NoError, begun |-> TRUE,
   qualifiedName |-> IF node.namespaceURI = XML_NS
                       THEN Xml \o <<":">> \o node.localName ELSE node.localName,
   inheritedNS |-> namespace, ignore |-> (rec.default # null), map |-> rec.map,
   index |-> index, gen |-> <<>>, attributes |-> <<>>]

\* Lines 350-580 of _serializeElementNS: the qualified name, the context
\* namespace of the children and the declaration pushed for the element.
\* rec is the result of _recordNamespaceInformation.
\* [err, begun, qualifiedName, inheritedNS, ignore, map, index, gen, attributes]
ElementNameNS(node, namespace, rec, index, rwf, nde) ==
  LET ns == node.namespaceURI
      localDefaultNamespace == rec.default
      base == [err |-> NoError, begun |-> TRUE, qualifiedName |-> node.localName,
               inheritedNS |-> namespace, ignore |-> FALSE, map |-> rec.map,
               index |-> index, gen |-> <<>>, attributes |-> <<>>]
      candidate0 == IF node.prefix # null \/ ns # localDefaultNamespace
                      THEN MapGet(rec.map, node.prefix, ns) ELSE null
      candidatePrefix == IF node.prefix = Xmlns THEN node.prefix ELSE candidate0
      generate == InObject(node.prefix, rec.local)
      gen == _generatePrefix(ns, rec.map, index)
      prefix == IF generate THEN gen.prefix ELSE node.prefix
      map1 == IF generate THEN gen.map ELSE rec.map
      decl == _serializeAttributeValue(ns, rwf, nde)
  IN  IF namespace = ns THEN
        [base EXCEPT
           !.ignore = (localDefaultNamespace # null),
           !.qualifiedName = IF ns = XML_NS THEN Xml \o <<":">> \o node.localName
                             ELSE node.localName]
      ELSE IF node.prefix = Xmlns /\ rwf THEN
        [base EXCEPT !.err = ErrXmlnsPrefix, !.begun = FALSE]
      ELSE IF candidatePrefix # null THEN
        [base EXCEPT
           !.qualifiedName = candidatePrefix \o <<":">> \o node.localName,
           !.inheritedNS = IF localDefaultNamespace # null /\ localDefaultNamespace # XML_NS
                             THEN OrNull(localDefaultNamespace) ELSE namespace]
      ELSE IF node.prefix # null THEN
        [base EXCEPT
           !.map = MapSet(map1, prefix, ns),
           !.index = IF generate THEN gen.index ELSE index,
           !.gen = IF generate
                     THEN <<[prefix |-> gen.prefix, ns |-> ns, before |-> rec.map]>>
                     ELSE <<>>,
           !.qualifiedName = prefix \o <<":">> \o node.localName,
           !.err = decl.err,
           !.attributes = IF decl.err = NoError
                            THEN << <<null, Xmlns, prefix, decl.value>> >> ELSE <<>>,
           !.inheritedNS = IF localDefaultNamespace # null
                             THEN OrNull(localDefaultNamespace) ELSE namespace]
      ELSE IF localDefaultNamespace = null \/
              (localDefaultNamespace # null /\ localDefaultNamespace # ns) THEN
        DeclareDefault(base, ns, decl)
      ELSE [base EXCEPT !.inheritedNS = ns]

\* _serializeElementNS up to the end of the open tag (lines 301-624).
\* prefixMap is the content of the map the caller passed.
\* [err, events, map, index, gen, inheritedNS, qualifiedName, skipEndTag]
ElementNS(node, namespace, prefixMap, index, rwf, nde) ==
  LET rec == _recordNamespaceInformation(node, MapCopy(prefixMap))
      nm == ElementNameNS(node, namespace, rec, index, rwf, nde)
      begin == IF nm.begun
                 THEN <<EvBeginElement(nm.qualifiedName), EvOpenTagBegin(nm.qualifiedName)>>
                 ELSE <<>>
      at == _serializeAttributesNS(node, nm.map, nm.index, rec.local, nm.ignore, rwf, nde)
      tagEnd == OpenTagEnd(node, nm.qualifiedName, node.namespaceURI = HTML_NS)
      res == [err |-> NoError, events |-> <<>>, map |-> rec.map, index |-> index,
              gen |-> <<>>, inheritedNS |-> namespace,
              qualifiedName |-> nm.qualifiedName, skipEndTag |-> FALSE]
  IN  IF rwf /\ (Contains(node.localName, ":") \/ ~xml_isName(node.localName))
        THEN [res EXCEPT !.err = ErrNodeName, !.map = prefixMap]
      ELSE IF nm.err # NoError
        THEN [res EXCEPT !.err = nm.err, !.events = begin, !.map = nm.map,
                         !.index = nm.index, !.gen = nm.gen]
      ELSE IF at.err # NoError
        THEN [res EXCEPT !.err = at.err, !.events = begin, !.map = at.map,
                         !.index = at.index, !.gen = nm.gen \o at.gen]
      ELSE [res EXCEPT
              !.events = begin \o <<EvAttributes(nm.attributes \o at.result)>>
                         \o tagEnd.events,
              !.map = at.map, !.index = at.index, !.gen = nm.gen \o at.gen,
              !.inheritedNS = nm.inheritedNS, !.skipEndTag = tagEnd.skipEndTag]

\* _serializeElement up to the end of the open tag (lines 668-767).
\* [err, events, qualifiedName, skipEndTag]
ElementPlain(node, rwf, nde) ==
  LET qualifiedName == node.localName
      begin == <<EvBeginElement(qualifiedName), EvOpenTagBegin(qualifiedName)>>
      at == _serializeAttributes(node, rwf, nde)
      tagEnd == OpenTagEnd(node, qualifiedName, FALSE)
      res == [err |-> NoError, events |-> <<>>, qualifiedName |-> qualifiedName,
              skipEndTag |-> FALSE]
  IN  IF rwf /\ (Contains(node.localName, ":") \/ ~xml_isName(node.localName))
        THEN [res EXCEPT !.err = ErrNodeName]
      ELSE IF at.err # NoError
        THEN [res EXCEPT !.err = at.err, !.events = begin]
      ELSE [res EXCEPT
              !.events = begin \o <<EvAttributes(at.result)>> \o tagEnd.events,
              !.skipEndTag = tagEnd.skipEndTag]

----------------------------------------------------------------------------
(* The other node kinds: [err, events]                                      *)

Failed(err) == [err |-> err, events |-> <<>>]
Emitted(event) == [err |-> NoError, events |-> <<event>>]

\* _serializeComment without its check
CommentUnchecked(node, rwf) == Emitted(EvComment(node.data))

\* _serializeComment with its check not guarded by requireWellFormed
CommentAlwaysChecked(node, rwf) ==
  IF ~xml_isLegalChar(node.data) \/ ContainsSub(node.data, <<"-", "-">>)
     \/ EndsWith(node.data, "-")
    THEN Failed(ErrComment)
    ELSE Emitted(EvComment(node.data))

\* _serializeComment
Comment(node, rwf) ==
  IF rwf /\ (~xml_isLegalChar(node.data) \/ ContainsSub(node.data, <<"-", "-">>)
             \/ EndsWith(node.data, "-"))
    THEN Failed(ErrComment)
    ELSE Emitted(EvComment(node.data))

\* _serializeText
Text(node, rwf, nde) ==
  IF rwf /\ ~xml_isLegalChar(node.data)
    THEN Failed(ErrText)
    ELSE Emitted(EvText(EscapeText(node.data, nde)))

\* _serializeCData
CData(node, rwf) ==
  IF rwf /\ ContainsSub(node.data, <<"]", "]", ">">>)
    THEN Failed(ErrCData)
    ELSE Emitted(EvCData(node.data))

\* (/^xml$/i).test(target)
IsXmlTarget(target) ==
  /\ Len(target) = 3
  /\ target[1] \in {"x", "X"}
  /\ target[2] \in {"m", "M"}
  /\ target[3] \in {"l", "L"}

\* _serializeProcessingInstruction
ProcessingInstruction(node, rwf) ==
  IF rwf /\ (Contains(node.target, ":") \/ IsXmlTarget(node.target))
    THEN Failed(ErrPITarget)
  ELSE IF rwf /\ (~xml_isLegalChar(node.data) \/ ContainsSub(node.data, <<"?", ">">>))
    THEN Failed(ErrPIData)
  ELSE Emitted(EvInstruction(node.target, node.data))

\* _serializeDocumentType
DocumentType(node, rwf) ==
  IF rwf /\ ~xml_isPubidChar(node.publicId)
    THEN Failed(ErrPubId)
  ELSE IF rwf /\ (~xml_isLegalChar(node.systemId) \/
                  (Contains(node.systemId, "\"") /\ Contains(node.systemId, "'")))
    THEN Failed(ErrSysId)
  ELSE Emitted(EvDocType(node.name, node.publicId, node.systemId))

\* Only a document without any child taken to lack its document element
NoChildNodes(node) == Len(node.childNodes) = 0

\* Document.documentElement === null
NoDocumentElement(node) ==
  \A i \in 1..Len(node.childNodes) : node.childNodes[i].nodeType # "Element"

KnownNodeTypes ==
  {"Element", "Document", "Comment", "Text", "DocumentFragment", "DocumentType",
   "ProcessingInstruction", "CData"}

----------------------------------------------------------------------------
(* The tree                                                                *)

RECURSIVE NodeAt(_, _)
NodeAt(node, path) ==
  IF Len(path) = 0 THEN node ELSE NodeAt(node.childNodes[Head(path)], Tail(path))

HasChildren(node) == node.nodeType \in {"Element", "Document", "DocumentFragment"}

----------------------------------------------------------------------------
(* The walk.  A frame is one active call of _serializeNodeNS/_serializeNode:*)
(* pc = "enter" before the node's handler has run, pc = "children" while    *)
(* the handler of an element, document or fragment is in its child loop    *)
(* (i is the next child).  namespace and prefixMap are the arguments of the *)
(* call, and, in the child loop of an element, inherited ns and map;        *)
(* prefixMap is an index into heap.                                         *)

MaxCalls == 2

NoException == [kind |-> "none", message |-> NoError]

Top == stack[Len(stack)]
Here == NodeAt(tree, Top.path)
Idle == status \in {"idle", "returned", "failed"}
Entering == status = "running" /\ Len(stack) > 0 /\ Top.pc = "enter"

Frame(path, pc, i, namespace, prefixMap, qualifiedName) ==
  [path |-> path, pc |-> pc, i |-> i, namespace |-> namespace,
   prefixMap |-> prefixMap, qualifiedName |-> qualifiedName]

\* The events as the sink sees them: with the node whose handler emits them
\* and this.level at that moment
Tagged(events, path, lvl) ==
  [i \in 1..Len(events) |-> events[i] @@ [node |-> path, level |-> lvl]]

Outcome(result, events, exc, lvl, gen) ==
  [namespaces |-> hasNamespaces, result |-> result, out |-> events,
   exception |-> exc, level |-> lvl, generated |-> gen]

\* throw new Error(message): the call stack unwinds to serializeNode
Throw(message) ==
  /\ status' = "throwing"
  /\ exception' = [kind |-> "Error", message |-> message]
  /\ raised' = [kind |-> "Error", message |-> message]
  /\ stack' = <<>>
  /\ calls' = calls

\* The handler of the innermost call returns.
Return ==
  /\ stack' = SubSeq(stack, 1, Len(stack) - 1)
  /\ status' = IF Len(stack) = 1 THEN "returned" ELSE "running"
  /\ calls' = IF Len(stack) = 1
                THEN Append(calls, Outcome("returned", out', NoException, level', generated'))
                ELSE calls
  /\ UNCHANGED <<exception, raised>>

\* The child loop run with the context the node itself was called with
EnterChildrenSameContext(namespace, prefixMap, qualifiedName) ==
  /\ stack' = [stack EXCEPT ![Len(stack)] =
                 Frame(Top.path, "children", 1, Top.namespace, prefixMap, qualifiedName)]
  /\ UNCHANGED <<status, exception, raised, calls>>

\* The innermost handler enters its child loop.
EnterChildren(namespace, prefixMap, qualifiedName) ==
  /\ stack' = [stack EXCEPT ![Len(stack)] =
                 Frame(Top.path, "children", 1, namespace, prefixMap, qualifiedName)]
  /\ UNCHANGED <<status, exception, raised, calls>>

\* The error passed on as it was raised
Unwrapped(e) == e

\* Lines 192-204: catch (e) { throw new InvalidStateError(e.message) }
Rethrown(e) == [kind |-> "InvalidStateError", message |-> e.message]

\* No copy: the element works on the map object of its caller
SameRef(h, prefixMap) == prefixMap

\* Line 353: prefixMap.copy() is a new object
CopyRef(h, prefixMap) == Len(h) + 1

Store(h, ref, map) ==
  IF ref > Len(h) THEN Append(h, map) ELSE [h EXCEPT ![ref] = map]

\* serializeNode with this.level and the prefix index left as the previous
\* call left them
serializeNodeKeepingState ==
  /\ Idle
  /\ Len(calls) < MaxCalls
  /\ status' = "running"
  /\ level' = level
  /\ currentNode' = <<>>
  /\ out' = <<>>
  /\ generated' = <<>>
  /\ exception' = NoException
  /\ raised' = NoException
  /\ IF hasNamespaces
       THEN /\ heap' = <<MapSet(NewNamespacePrefixMap, Xml, XML_NS)>>
            /\ prefixIndex' = IF prefixIndex = 0 THEN 1 ELSE prefixIndex
            /\ stack' = <<Frame(<<>>, "enter", 0, null, 1, EmptyString)>>
       ELSE /\ heap' = <<>>
            /\ prefixIndex' = 0
            /\ stack' = <<Frame(<<>>, "enter", 0, null, 0, EmptyString)>>
  /\ UNCHANGED <<inheritNS, otherOps, tree, hasNamespaces, requireWellFormed, noDoubleEncoding, calls>>

\* serializeNode, lines 156-194 and 198-200
serializeNode ==
  /\ Idle
  /\ Len(calls) < MaxCalls
  /\ status' = "running"
  /\ level' = 0
  /\ currentNode' = <<>>
  /\ out' = <<>>
  /\ generated' = <<>>
  /\ exception' = NoException
  /\ raised' = NoException
  /\ IF hasNamespaces
       THEN /\ heap' = <<MapSet(NewNamespacePrefixMap, Xml, XML_NS)>>
            /\ prefixIndex' = 1
            /\ stack' = <<Frame(<<>>, "enter", 0, null, 1, EmptyString)>>
       ELSE /\ heap' = <<>>
            /\ prefixIndex' = 0
            /\ stack' = <<Frame(<<>>, "enter", 0, null, 0, EmptyString)>>
  /\ UNCHANGED <<inheritNS, otherOps, tree, hasNamespaces, requireWellFormed, noDoubleEncoding, calls>>

\* serializeNode's catch clauses
CatchRethrow ==
  /\ status = "throwing"
  /\ status' = "failed"
  /\ exception' = Rethrown(exception)
  /\ calls' = Append(calls, Outcome("failed", out, exception', level, generated))
  /\ UNCHANGED <<inheritNS, otherOps, tree, hasNamespaces, requireWellFormed, noDoubleEncoding, stack,
                 heap, prefixIndex, level, currentNode, out, generated, raised>>

\* _serializeElementNS, to the child loop
_serializeElementNS ==
  /\ Entering /\ hasNamespaces /\ Here.nodeType = "Element"
  /\ LET r == ElementNS(Here, Top.namespace, heap[Top.prefixMap], prefixIndex,
                        requireWellFormed, noDoubleEncoding)
         ref == CopyRef(heap, Top.prefixMap)
     IN  /\ currentNode' = Top.path
         /\ out' = out \o Tagged(r.events, Top.path, level)
         /\ heap' = IF r.err = ErrNodeName THEN heap ELSE Store(heap, ref, r.map)
         /\ prefixIndex' = r.index
         /\ generated' = generated \o
                            [k \in 1..Len(r.gen) |-> r.gen[k] @@ [node |-> Top.path]]
         /\ level' = level
         /\ IF r.err # NoError THEN Throw(r.err)
            ELSE IF r.skipEndTag THEN Return
            ELSE EnterChildren(r.inheritedNS, ref, r.qualifiedName)
  /\ UNCHANGED <<inheritNS, otherOps, tree, hasNamespaces, requireWellFormed, noDoubleEncoding>>

\* _serializeElement, to the child loop
_serializeElement ==
  /\ Entering /\ ~hasNamespaces /\ Here.nodeType = "Element"
  /\ LET r == ElementPlain(Here, requireWellFormed, noDoubleEncoding)
     IN  /\ currentNode' = Top.path
         /\ out' = out \o Tagged(r.events, Top.path, level)
         /\ level' = level
         /\ generated' = generated
         /\ IF r.err # NoError THEN Throw(r.err)
            ELSE IF r.skipEndTag THEN Return
            ELSE EnterChildren(null, 0, r.qualifiedName)
  /\ UNCHANGED <<inheritNS, otherOps, tree, hasNamespaces, requireWellFormed, noDoubleEncoding, heap,
                 prefixIndex>>

\* _serializeDocumentNS and _serializeDocument, to the child loop
DocumentStep ==
  /\ currentNode' = Top.path
  /\ out' = out
  /\ level' = level
  /\ generated' = generated
  /\ IF requireWellFormed /\ NoDocumentElement(Here)
       THEN Throw(ErrNoDocumentElement)
       ELSE EnterChildren(Top.namespace, Top.prefixMap, EmptyString)
  /\ UNCHANGED <<inheritNS, otherOps, tree, hasNamespaces, requireWellFormed, noDoubleEncoding, heap,
                 prefixIndex>>

_serializeDocumentNS ==
  Entering /\ hasNamespaces /\ Here.nodeType = "Document" /\ DocumentStep

_serializeDocument ==
  Entering /\ ~hasNamespaces /\ Here.nodeType = "Document" /\ DocumentStep

\* _serializeDocumentFragmentNS and _serializeDocumentFragment
FragmentStep ==
  /\ currentNode' = Top.path
  /\ EnterChildren(Top.namespace, Top.prefixMap, EmptyString)
  /\ UNCHANGED <<inheritNS, otherOps, tree, hasNamespaces, requireWellFormed, noDoubleEncoding, heap,
                 prefixIndex, level, out, generated>>

_serializeDocumentFragmentNS ==
  Entering /\ hasNamespaces /\ Here.nodeType = "DocumentFragment" /\ FragmentStep

_serializeDocumentFragment ==
  Entering /\ ~hasNamespaces /\ Here.nodeType = "DocumentFragment" /\ FragmentStep

\* A handler without children: it throws, or emits its event and returns.
LeafStep(r) ==
  /\ currentNode' = Top.path
  /\ out' = out \o Tagged(r.events, Top.path, level)
  /\ level' = level
  /\ generated' = generated
  /\ IF r.err # NoError THEN Throw(r.err) ELSE Return
  /\ UNCHANGED <<inheritNS, otherOps, tree, hasNamespaces, requireWellFormed, noDoubleEncoding, heap,
                 prefixIndex>>

_serializeComment ==
  Entering /\ Here.nodeType = "Comment" /\ LeafStep(Comment(Here, requireWellFormed))

_serializeText ==
  /\ Entering /\ Here.nodeType = "Text"
  /\ LeafStep(Text(Here, requireWellFormed, noDoubleEncoding))

_serializeCData ==
  Entering /\ Here.nodeType = "CData" /\ LeafStep(CData(Here, requireWellFormed))

_serializeProcessingInstruction ==
  /\ Entering /\ Here.nodeType = "ProcessingInstruction"
  /\ LeafStep(ProcessingInstruction(Here, requireWellFormed))

_serializeDocumentType ==
  /\ Entering /\ Here.nodeType = "DocumentType"
  /\ LeafStep(DocumentType(Here, requireWellFormed))

\* The default branch of the switch left empty: the node is passed over
UnknownNodeSkipped ==
  /\ Entering /\ Here.nodeType \notin KnownNodeTypes
  /\ LeafStep([err |-> NoError, events |-> <<>>])

\* The default branch of the switch of _serializeNodeNS and _serializeNode
UnknownNodeType ==
  /\ Entering /\ Here.nodeType \notin KnownNodeTypes
  /\ LeafStep(Failed(ErrUnknownNode(Here.nodeType)))

\* Lines 641-659 and 784-798: the template test and the child loop of an
\* element, then closeTag and endElement
SkipsChildren(node) ==
  hasNamespaces /\ node.namespaceURI = HTML_NS /\ node.localName = TemplateName

\* The child loop with the two closing events in the other order
NextChildEndBeforeClose ==
  /\ status = "running" /\ Len(stack) > 0 /\ Top.pc = "children"
  /\ LET node == Here
         isElement == node.nodeType = "Element"
         lvl == IF isElement /\ Top.i > 1 THEN level - 1 ELSE level
         more == Top.i <= Len(node.childNodes) /\ ~(isElement /\ SkipsChildren(node))
     IN  IF more
           THEN /\ level' = IF isElement THEN lvl + 1 ELSE lvl
                /\ stack' = Append([stack EXCEPT ![Len(stack)].i = Top.i + 1],
                                   Frame(Append(Top.path, Top.i), "enter", 0,
                                         Top.namespace, Top.prefixMap, EmptyString))
                /\ out' = out
                /\ UNCHANGED <<status, exception, raised, calls>>
           ELSE /\ level' = lvl
                /\ out' = IF isElement
                            THEN out \o Tagged(<<EvEndElement(Top.qualifiedName),
                                                 EvCloseTag(Top.qualifiedName)>>,
                                               Top.path, lvl)
                            ELSE out
                /\ generated' = generated
                /\ Return
  /\ UNCHANGED <<inheritNS, otherOps, tree, hasNamespaces, requireWellFormed, noDoubleEncoding, heap,
                 prefixIndex, currentNode, generated>>

\* The child loop without level-- after a child
NextChildLevelKept ==
  /\ status = "running" /\ Len(stack) > 0 /\ Top.pc = "children"
  /\ LET node == Here
         isElement == node.nodeType = "Element"
         more == Top.i <= Len(node.childNodes) /\ ~(isElement /\ SkipsChildren(node))
     IN  IF more
           THEN /\ level' = IF isElement THEN level + 1 ELSE level
                /\ stack' = Append([stack EXCEPT ![Len(stack)].i = Top.i + 1],
                                   Frame(Append(Top.path, Top.i), "enter", 0,
                                         Top.namespace, Top.prefixMap, EmptyString))
                /\ out' = out
                /\ UNCHANGED <<status, exception, raised, calls>>
           ELSE /\ level' = level
                /\ out' = IF isElement
                            THEN out \o Tagged(<<EvCloseTag(Top.qualifiedName),
                                                 EvEndElement(Top.qualifiedName)>>,
                                               Top.path, level)
                            ELSE out
                /\ generated' = generated
                /\ Return
  /\ UNCHANGED <<inheritNS, otherOps, tree, hasNamespaces, requireWellFormed, noDoubleEncoding, heap,
                 prefixIndex, currentNode, generated>>

\* One turn of the child loop of the innermost handler: level-- after the
\* previous child (elements only), then the call of the next child with
\* level++ before it (elements only), or the end of the loop.
NextChild ==
  /\ status = "running" /\ Len(stack) > 0 /\ Top.pc = "children"
  /\ LET node == Here
         isElement == node.nodeType = "Element"
         lvl == IF isElement /\ Top.i > 1 THEN level - 1 ELSE level
         more == Top.i <= Len(node.childNodes) /\ ~(isElement /\ SkipsChildren(node))
     IN  IF more
           THEN /\ level' = IF isElement THEN lvl + 1 ELSE lvl
                /\ stack' = Append([stack EXCEPT ![Len(stack)].i = Top.i + 1],
                                   Frame(Append(Top.path, Top.i), "enter", 0,
                                         Top.namespace, Top.prefixMap, EmptyString))
                /\ out' = out
                /\ UNCHANGED <<status, exception, raised, calls>>
           ELSE /\ level' = lvl
                /\ out' = IF isElement
                            THEN out \o Tagged(<<EvCloseTag(Top.qualifiedName),
                                                 EvEndElement(Top.qualifiedName)>>,
                                               Top.path, lvl)
                            ELSE out
                /\ generated' = generated
                /\ Return
  /\ UNCHANGED <<inheritNS, otherOps, tree, hasNamespaces, requireWellFormed, noDoubleEncoding, heap,
                 prefixIndex, currentNode, generated>>

\* The DOM sets _hasNamespaces when a namespaced element or attribute is
\* created in the document, attached to the tree or not, and never clears it.
CreateNamespacedNode ==
  /\ Idle
  /\ ~hasNamespaces
  /\ hasNamespaces' = TRUE
  /\ UNCHANGED <<inheritNS, otherOps, tree, requireWellFormed, noDoubleEncoding, status, stack, heap,
                 prefixIndex, level, currentNode, out, exception, generated,
                 raised, calls>>

Next ==
  \/ serializeNode
  \/ _serializeElementNS
  \/ _serializeElement
  \/ _serializeDocumentNS
  \/ _serializeDocument
  \/ _serializeDocumentFragmentNS
  \/ _serializeDocumentFragment
  \/ _serializeComment
  \/ _serializeText
  \/ _serializeCData
  \/ _serializeProcessingInstruction
  \/ _serializeDocumentType
  \/ UnknownNodeType
  \/ NextChild
  \/ CatchRethrow
  \/ CreateNamespacedNode

----------------------------------------------------------------------------
(* Trees                                                                   *)

Element(localName, prefix, namespaceURI, attributes, childNodes) ==
  [nodeType |-> "Element", localName |-> localName, prefix |-> prefix,
   namespaceURI |-> namespaceURI, attributes |-> attributes,
   childNodes |-> childNodes]
Document(childNodes) == [nodeType |-> "Document", childNodes |-> childNodes]
DocumentFragment(childNodes) ==
  [nodeType |-> "DocumentFragment", childNodes |-> childNodes]
CommentNode(data) == [nodeType |-> "Comment", data |-> data]
TextNode(data) == [nodeType |-> "Text", data |-> data]
CDataNode(data) == [nodeType |-> "CData", data |-> data]
Instruction(target, data) ==
  [nodeType |-> "ProcessingInstruction", target |-> target, data |-> data]
DocType(name, publicId, systemId) ==
  [nodeType |-> "DocumentType", name |-> name, publicId |-> publicId,
   systemId |-> systemId]
\* an element whose nodeType was overwritten (JSONWriter.test.ts, 'unknown node')
Alien(localName) ==
  [nodeType |-> "1001", localName |-> localName, prefix |-> null,
   namespaceURI |-> null, attributes |-> <<>>, childNodes |-> <<>>]

Attr(namespaceURI, prefix, localName, value) ==
  <<namespaceURI, prefix, localName, value>>

\* Whether a node or one below it carries a namespace
RECURSIVE UsesNamespaces(_)
UsesNamespaces(node) ==
  \/ /\ node.nodeType = "Element"
     /\ \/ node.namespaceURI # null
        \/ node.prefix # null
        \/ \E i \in 1..Len(node.attributes) :
             node.attributes[i][1] # null \/ node.attributes[i][2] # null
  \/ /\ HasChildren(node)
     /\ \E i \in 1..Len(node.childNodes) : UsesNamespaces(node.childNodes[i])

NsA == <<"urn:a">>
NsB == <<"urn:b">>
NameA == <<"a">>
NameB == <<"b">>
NameC == <<"c">>
NameK == <<"k">>
PrefixP == <<"p">>
PrefixQ == <<"q">>
ValueV == <<"v">>

XmlnsDefault(value) == Attr(XMLNS_NS, null, Xmlns, value)
XmlnsPrefix(prefix, value) == Attr(XMLNS_NS, Xmlns, prefix, value)

\* Trees that reach every node kind
KindTrees ==
  { Document(<<DocType(NameA, EmptyString, EmptyString),
               Instruction(NameK, ValueV),
               CommentNode(ValueV),
               Element(NameA, null, null, <<Attr(null, null, NameK, ValueV)>>,
                       <<TextNode(ValueV), CDataNode(ValueV),
                         Element(NameB, null, null, <<>>, <<>>)>>)>>),
    Document(<<CommentNode(ValueV)>>),
    DocumentFragment(<<Element(NameA, null, null, <<>>, <<Alien(NameB)>>),
                       TextNode(ValueV)>>) }

\* The writer before its first call, with the arguments of the calls: the
\* tree, requireWellFormed and noDoubleEncoding (one of `modes`)
InitModes(trees, modes) ==
  /\ tree \in trees
  /\ hasNamespaces \in (IF UsesNamespaces(tree) THEN {TRUE} ELSE BOOLEAN)
  /\ requireWellFormed \in BOOLEAN
  /\ noDoubleEncoding \in modes
  /\ status = "idle"
  /\ stack = <<>>
  /\ heap = <<>>
  /\ prefixIndex = 0
  /\ level = 0
  /\ currentNode = <<>>
  /\ out = <<>>
  /\ exception = NoException
  /\ generated = <<>>
  /\ raised = NoException
  /\ calls = <<>>
  /\ otherOps = FALSE
  /\ inheritNS = TRUE

InitWith(trees) == InitModes(trees, {FALSE})

Init == InitWith(KindTrees)

Spec == Init /\ [][Next]_vars

----------------------------------------------------------------------------
(* Trees with namespaces: a root, a child and a grandchild, each with a    *)
(* prefix, a namespace and declarations of its own                         *)

NsMiddles ==
  { Element(NameB, n[1], n[2], at, <<g>>) :
      n \in { <<null, null>>, <<null, NsA>>, <<null, NsB>>, <<PrefixP, NsA>>,
              <<PrefixP, NsB>>, <<null, XML_NS>>, <<Xml, XML_NS>>,
              <<Xmlns, XMLNS_NS>> },
      at \in { <<>>, <<XmlnsDefault(NsA)>>, <<XmlnsDefault(NsB)>>,
               <<XmlnsDefault(EmptyString)>>, <<XmlnsDefault(XML_NS)>>,
               <<XmlnsPrefix(PrefixP, NsB)>> },
      g \in { Element(NameC, m[1], m[2], <<>>, <<>>) :
                 m \in { <<null, null>>, <<null, NsA>>, <<null, NsB>>,
                         <<PrefixP, NsA>>, <<PrefixP, NsB>> } } }

NsChains ==
  { Element(NameA, r[1], r[2], r[3], <<c>>) :
      r \in { <<null, null, <<>> >>,
              <<null, NsA, <<>> >>,
              <<null, NsA, <<XmlnsDefault(NsA)>> >>,
              <<PrefixP, NsA, <<XmlnsPrefix(PrefixP, NsA)>> >>,
              <<null, null, <<XmlnsPrefix(PrefixP, NsA)>> >>,
              <<null, NsB, <<XmlnsDefault(NsB), XmlnsPrefix(PrefixP, NsA)>> >> },
      c \in NsMiddles }

\* Siblings that need generated prefixes: an attribute in a namespace without
\* a prefix, and an element whose own prefix is redeclared on it
MaxSiblings == 3

GenKids ==
  { Element(NameB, null, null, <<>>, <<>>),
    Element(NameB, null, null, <<Attr(NsA, null, NameK, ValueV)>>, <<>>),
    Element(NameB, null, null, <<Attr(NsB, null, NameK, ValueV)>>,
            <<Element(NameC, null, null, <<Attr(NsA, null, NameK, ValueV)>>, <<>>)>>),
    Element(NameB, PrefixP, NsA, <<XmlnsPrefix(PrefixP, NsB)>>,
            <<Element(NameC, PrefixQ, NsB, <<>>, <<>>)>>) }

NsSiblings ==
  UNION { { Element(NameA, null, null, <<>>, kids), DocumentFragment(kids) } :
            kids \in UNION { [1..n -> GenKids] : n \in 1..MaxSiblings } }

SpecNS == InitWith(KindTrees \cup NsChains \cup NsSiblings) /\ [][Next]_vars

----------------------------------------------------------------------------
(* Trees of every node kind, well-formed and not; trees without namespaces *)
(* are serialized on either path                                           *)

ColonName == <<"a", ":", "b">>
ValueOf == <<"v", "a", "l", "u", "e", "O", "f">>

Leaves ==
  { CommentNode(ValueV), CommentNode(<<"-", "-">>), CommentNode(<<"v", "-">>),
    CommentNode(<<IllegalChar>>), CommentNode(<<"<", "&", "-">>),
    TextNode(ValueV), TextNode(<<"<", "&">>), TextNode(<<IllegalChar>>),
    CDataNode(ValueV), CDataNode(<<"]", "]", ">">>),
    Instruction(NameK, ValueV), Instruction(<<"X", "m", "l">>, ValueV),
    Instruction(ColonName, ValueV), Instruction(NameK, <<"?", ">">>),
    Instruction(NameK, <<IllegalChar>>),
    Alien(NameB) }

\* Attribute lists without namespaces; setAttribute gives an attribute
\* named xmlns a null namespace
PlainAttrs ==
  { <<>>,
    <<Attr(null, null, NameK, ValueV)>>,
    <<Attr(null, null, NameK, ValueV), Attr(null, null, NameC, ValueV)>>,
    <<Attr(null, null, NameK, ValueV), Attr(null, null, NameK, NameC)>>,
    <<Attr(null, null, ColonName, ValueV)>>,
    <<Attr(null, null, NameK, <<IllegalChar>>)>>,
    <<Attr(null, null, Xmlns, ValueV)>>,
    <<Attr(null, null, ValueOf, ValueV)>>,
    <<Attr(null, null, ProtoKey, ValueV)>> }

PlainTrees ==
  { Element(NameA, null, null, at, kids) :
      at \in PlainAttrs, kids \in {<<>>} \cup {<<l>> : l \in Leaves} }
  \cup
  { Element(ColonName, null, null, <<>>, <<>>) }
  \cup
  { Document(<<d, Element(NameA, null, null, <<>>,
                          <<Element(NameB, null, null, at, <<>>), l>>)>>) :
      d \in { DocType(NameA, EmptyString, EmptyString),
               DocType(NameA, <<"{">>, EmptyString),
               DocType(NameA, EmptyString, <<"\"", "'">>),
               DocType(NameA, EmptyString, <<IllegalChar>>) },
      at \in { <<>>, <<Attr(null, null, NameK, ValueV), Attr(null, null, NameK, NameC)>> },
      l \in { CommentNode(ValueV), TextNode(ValueV), CDataNode(ValueV),
              Instruction(NameK, ValueV) } }
  \cup
  { Document(<<l>>) : l \in Leaves }
  \cup
  { Document(<<>>),
    Document(<<DocType(NameA, EmptyString, EmptyString), CommentNode(ValueV),
               Instruction(NameK, ValueV)>>),
    Document(<<CommentNode(<<"-", "-">>), Instruction(NameK, ValueV)>>) }
  \cup
  { DocumentFragment(<<l, Element(NameA, null, null, <<>>, <<>>)>>) : l \in Leaves }

\* HTML elements: void, empty and not void, and template
HtmlTrees ==
  { Element(n, null, HTML_NS, <<>>, kids) :
      n \in { <<"b", "r">>, NameA, TemplateName },
      kids \in { <<>>, <<TextNode(ValueV)>>,
                 <<Element(NameB, null, HTML_NS, <<>>, <<CommentNode(ValueV)>>)>> } }
  \cup
  { Element(TemplateName, null, NsA, <<>>, <<TextNode(ValueV)>>),
    Document(<<Element(NameA, null, HTML_NS, <<>>,
                       <<Element(TemplateName, null, HTML_NS, <<>>,
                                 <<CommentNode(<<"-", "-">>)>>),
                         TextNode(ValueV)>>)>>) }

\* Two attributes with the same namespace and local name, which only a
\* corrupted attribute list holds
DuplicateAttrs ==
  { <<Attr(null, null, NameK, ValueV), Attr(null, null, NameK, NameC)>>,
    <<Attr(NsA, PrefixP, NameK, ValueV), Attr(NsA, PrefixQ, NameK, NameC)>>,
    <<Attr(NsB, null, NameK, ValueV), Attr(NsB, null, NameK, ValueV)>>,
    <<XmlnsDefault(NsA), XmlnsDefault(NsA)>>,
    <<XmlnsPrefix(PrefixP, NsA), XmlnsPrefix(PrefixP, NsA)>>,
    <<XmlnsPrefix(PrefixP, XML_NS), XmlnsPrefix(PrefixP, XML_NS)>>,
    <<Attr(null, null, ColonName, ValueV), Attr(null, null, NameK, ValueV),
      Attr(null, null, NameK, ValueV)>> }

DuplicateTrees ==
  { Element(NameA, null, r[1], r[2], <<Element(NameB, n[1], n[2], at, <<>>)>>) :
      r \in { <<null, <<>> >>, <<NsA, <<XmlnsDefault(NsA)>> >> },
      n \in { <<null, null>>, <<null, NsA>>, <<PrefixP, NsA>> },
      at \in DuplicateAttrs }
  \cup
  { Element(NameA, null, null, <<XmlnsPrefix(PrefixP, v)>>, <<>>) :
      v \in { XMLNS_NS, EmptyString } }

SpecKinds ==
  InitWith(KindTrees \cup PlainTrees \cup HtmlTrees \cup DuplicateTrees) /\ [][Next]_vars

----------------------------------------------------------------------------
(* Properties                                                              *)

----------------------------------------------------------------------------
(* Trees whose prefixes are declared on the root element: p for urn:a and  *)
(* q for urn:b; below the root, elements and attributes that use them,     *)
(* with and without a default namespace in scope, and two trees whose      *)
(* prefixes are not declared on the root                                    *)

NsC == <<"urn:c">>

DeclaredTrees ==
  { Element(NameA, r[1], r[2],
            <<XmlnsPrefix(PrefixP, NsA), XmlnsPrefix(PrefixQ, NsB)>> \o d,
            <<Element(NameB, n[1], n[2], at,
                      <<Element(NameC, m[1], m[2], gat, <<>>)>>)>>) :
      r \in { <<null, null>>, <<PrefixP, NsA>>, <<null, NsA>> },
      d \in { <<>>, <<XmlnsDefault(NsA)>> },
      n \in { <<null, null>>, <<PrefixP, NsA>>, <<PrefixQ, NsB>> },
      at \in { <<>>,
               <<Attr(NsA, PrefixP, NameK, ValueV)>>,
               <<Attr(NsB, PrefixQ, NameK, ValueV), Attr(NsA, PrefixP, NameK, ValueV)>>,
               <<XmlnsPrefix(PrefixQ, NsA)>>,
               <<XmlnsDefault(NsB)>>,
               <<Attr(NsA, null, NameK, ValueV)>>,
               <<Attr(NsC, null, NameK, ValueV)>> },
      m \in { <<null, null>>, <<PrefixP, NsA>>, <<PrefixQ, NsB>> },
      gat \in { <<>>, <<Attr(NsB, PrefixQ, NameK, ValueV)>> } }
  \cup
  { Element(NameA, null, null, <<>>, <<Element(NameB, PrefixP, NsA, <<>>, <<>>)>>),
    Element(NameA, null, null, <<XmlnsPrefix(PrefixP, NsB)>>,
            <<Element(NameB, null, null, <<Attr(NsA, PrefixP, NameK, ValueV)>>, <<>>)>>) }

SpecPrefixes == InitWith(KindTrees \cup DeclaredTrees) /\ [][Next]_vars

----------------------------------------------------------------------------
(* Character data: every string up to MaxLen over the characters the       *)
(* escaping rules look at, and some longer ones, as the value of an        *)
(* attribute and as the data of a text node; both escaping modes            *)

MaxLen == 2

EscapeStrings ==
  { <<"a", " ", "&", " ", "b", " ", "<", " ", "c", " ", ">", " ", "d">>,
    <<"&", "a", "m", "p", ";">>,
    <<"&", "a", ";">>,
    <<"&", "&", "a", "m", "p", ";">>,
    <<"&", "\t", ";">>,
    <<"&", "U+00A0", ";">>,
    <<"&", "\f", ";">>,
    <<"&", "a", "U+000B", "b", ";">>,
    <<"&", "a", "&", "a", ";", "&">>,
    <<"a", "\t", "b", "\n", "c", "\r", "\n">>,
    <<"\"", "<", ">", "\"">> }
  \cup
  UNION { [1..n -> {"&", "<", ">", "\"", "\t", "\n", "\r", "a", ";"}] : n \in 0..MaxLen }

EscapeTrees ==
  { Element(NameA, null, null, <<Attr(null, null, NameK, s)>>, <<TextNode(s)>>) :
      s \in EscapeStrings }

SpecEscaping == InitModes(KindTrees \cup EscapeTrees, BOOLEAN) /\ [][Next]_vars

----------------------------------------------------------------------------
(* Trees that declare the prefix ns1 themselves, on the root or on the     *)
(* element that needs a generated prefix                                    *)

Ns1 == <<"n", "s", "1">>

CollisionTrees ==
  { Element(NameA, null, null, d,
            <<Element(NameB, n[1], n[2], at, <<>>)>>) :
      d \in { <<>>, <<XmlnsPrefix(Ns1, NsB)>>, <<XmlnsPrefix(Ns1, NsA)>> },
      n \in { <<null, null>>, <<Ns1, NsB>> },
      at \in { <<Attr(NsA, null, NameK, ValueV)>>,
               <<Attr(NsB, Ns1, NameK, ValueV), Attr(NsA, null, NameK, ValueV)>>,
               <<Attr(NsA, PrefixP, NameK, ValueV), Attr(NsA, PrefixP, NameC, ValueV)>>,
               <<XmlnsPrefix(Ns1, NsB), Attr(NsA, null, NameK, ValueV)>>,
               <<XmlnsPrefix(Ns1, NsA)>> } }

SpecGenerated == InitWith(KindTrees \cup NsSiblings \cup CollisionTrees) /\ [][Next]_vars

\* Elements with their own namespace declarations: default declarations
\* (another namespace, the element's, empty, repeated), an attribute named
\* xmlns of no namespace, prefixed declarations (empty, of xml, of a prefix
\* in use, of the prefix __proto__), below a root that declares nothing, a
\* prefix or a default; elements with the prefix __proto__ that declare it;
\* and elements with the prefix xmlns below the element xmlns of the XMLNS
\* namespace, in that namespace or another
DeclarationTrees ==
  { Element(NameA, null, r[1], r[2],
            <<Element(NameB, n[1], n[2], at,
                      <<Element(NameC, g[1], g[2], <<>>, <<>>)>>)>>) :
      r \in { <<null, <<>> >>,
              <<null, <<XmlnsPrefix(PrefixP, NsA)>> >>,
              <<NsA, <<XmlnsDefault(NsA)>> >> },
      n \in { <<null, NsA>>, <<null, NsB>>, <<null, null>>, <<PrefixP, NsA>> },
      g \in { <<null, null>>, <<null, NsA>>, <<Xml, XML_NS>>, <<PrefixP, NsB>> },
      at \in { <<>>,
               <<XmlnsDefault(NsB)>>,
               <<XmlnsDefault(NsA)>>,
               <<XmlnsDefault(EmptyString)>>,
               <<XmlnsDefault(NsB), XmlnsDefault(NsB)>>,
               <<Attr(null, null, Xmlns, ValueV)>>,
               <<XmlnsDefault(NsB), Attr(null, null, Xmlns, ValueV)>>,
               <<XmlnsPrefix(PrefixQ, EmptyString)>>,
               <<XmlnsPrefix(Xml, NsB)>>,
               <<XmlnsPrefix(Xml, XML_NS)>>,
               <<XmlnsPrefix(ProtoKey, NsB)>>,
               <<XmlnsPrefix(PrefixP, NsB), Attr(NsB, null, NameK, ValueV)>> } }
  \cup
  { Element(NameA, ProtoKey, NsB, <<XmlnsPrefix(ProtoKey, NsB)>>,
            <<Element(NameB, ProtoKey, n, <<>>, <<>>)>>) : n \in {NsA, NsB} }
  \cup
  LET xmlnsKids == { Element(NameC, Xmlns, n, <<>>, <<>>) : n \in {XMLNS_NS, NsA} }
  IN  { Element(Xmlns, null, XMLNS_NS, <<>>, kids) :
          kids \in { <<c>> : c \in xmlnsKids } \cup
                   { <<c, d>> : c \in xmlnsKids, d \in xmlnsKids } }

SpecDeclarations == InitWith(KindTrees \cup DeclarationTrees) /\ [][Next]_vars

\* The value of a string of decimal digits
RECURSIVE DecimalValue(_)
DecimalValue(s) ==
  IF Len(s) = 0 THEN 0
  ELSE 10 * DecimalValue(SubSeq(s, 1, Len(s) - 1)) +
       (CHOOSE d \in 0..9 : DigitChars[d + 1] = s[Len(s)])

\* The logs of generated prefixes: of the call in progress and of every
\* call that has ended
GeneratedLogs == {generated} \cup {calls[c].generated : c \in 1..Len(calls)}

\* Whether neither path leads to the other: the nodes are in different
\* branches of the tree
Apart(p, q) ==
  \E k \in 1..Len(p) : k <= Len(q) /\ p[k] # q[k]

\* C1: within one serializeNode call the k-th prefix that is generated,
\* wherever in the tree, is "ns" followed by k in decimal, so the suffixes
\* increase strictly and no two namespaces receive the same generated prefix.
C1_GeneratedPrefixSequence ==
  \A log \in GeneratedLogs :
    \A k \in 1..Len(log) :
      /\ Len(log[k].prefix) > 2
      /\ SubSeq(log[k].prefix, 1, 2) = <<"n", "s">>
      /\ \A d \in 3..Len(log[k].prefix) :
           \E e \in 1..10 : DigitChars[e] = log[k].prefix[d]
      /\ DecimalValue(SubSeq(log[k].prefix, 3, Len(log[k].prefix))) = k
      /\ \A j \in 1..Len(log) :
           log[j].prefix = log[k].prefix => log[j].ns = log[k].ns

\* Three prefixes generated in one call, for two namespaces, in different
\* branches of the tree
C1_Witness ==
  /\ Len(generated) >= 3
  /\ \E j, k \in 1..Len(generated) :
       /\ j < k
       /\ generated[j].ns # generated[k].ns
       /\ Apart(generated[j].node, generated[k].node)

\* C2: the bindings an element adds (its xmlns:* declarations and the
\* prefixes generated for it and its attributes) go to a copy of the map it
\* was called with: while a node is in its child loop no step changes the
\* map it hands to its children, so each child is called with the entries
\* the map had before its preceding siblings were visited.
C2_BindingsStayInSubtree ==
  [][ \A k \in 1..Len(stack) :
        (hasNamespaces /\ k <= Len(stack') /\ stack[k].pc = "children") =>
          /\ stack'[k].prefixMap = stack[k].prefixMap
          /\ heap'[stack'[k].prefixMap] = heap[stack[k].prefixMap]
          /\ (k < Len(stack') /\ k = Len(stack)) =>
               stack'[k + 1].prefixMap = stack[k].prefixMap ]_vars

\* A child has been serialized with bindings of its own, its parent is
\* back in its child loop and another child follows
C2_Witness ==
  /\ status = "running" /\ hasNamespaces /\ Len(stack) > 0
  /\ Top.pc = "children" /\ Top.i > 1 /\ Top.i <= Len(Here.childNodes)
  /\ \E ref \in (Top.prefixMap + 1)..Len(heap) : heap[ref] # heap[Top.prefixMap]

\* Reading the log of sink events: the events of one kind of one node, the
\* attribute list a node was emitted with, and the prefix of the name an
\* element was emitted under (null for a bare local name)
EventsAt(log, path, ev) ==
  {i \in 1..Len(log) : log[i].ev = ev /\ log[i].node = path}

AttributesAt(log, path) ==
  log[CHOOSE i \in EventsAt(log, path, "attributes") : TRUE].attributes

EmittedPrefix(log, path) ==
  LET name == log[CHOOSE i \in EventsAt(log, path, "beginElement") : TRUE].name
      localName == NodeAt(tree, path).localName
  IN  IF Len(name) > Len(localName) + 1
        THEN SubSeq(name, 1, Len(name) - Len(localName) - 1)
        ELSE null

\* The frames of elements in their child loop that carry xmlns="X" for
\* their own namespace X, X not the XML namespace
DeclaringFrames ==
  {k \in 1..Len(stack) :
     /\ stack[k].pc = "children"
     /\ NodeAt(tree, stack[k].path).nodeType = "Element"
     /\ NodeAt(tree, stack[k].path).namespaceURI \notin {null, XML_NS}
     /\ \E a \in 1..Len(NodeAt(tree, stack[k].path).attributes) :
          NodeAt(tree, stack[k].path).attributes[a] =
            XmlnsDefault(NodeAt(tree, stack[k].path).namespaceURI)}

\* C3: an element of namespace X that carries xmlns="X" is emitted with at
\* most one xmlns="X"; a child of it whose namespace Y differs from X is
\* emitted with a declaration of its own for Y, or under a prefix that an
\* ancestor binds to Y.  (Stated for well-formed mode and X other than the
\* XML namespace.)
C3_DefaultNamespaceIdempotence ==
  (status = "running" /\ hasNamespaces /\ requireWellFormed) =>
  \A k \in DeclaringFrames :
    LET E == NodeAt(tree, stack[k].path)
        X == E.namespaceURI
        own == AttributesAt(out, stack[k].path)
    IN  /\ Cardinality({a \in 1..Len(own) :
                          own[a][2] = null /\ own[a][3] = Xmlns /\ own[a][4] = X}) <= 1
        /\ \A j \in 1..Len(E.childNodes) :
             LET path == Append(stack[k].path, j)
                 C == E.childNodes[j]
             IN  ( /\ C.nodeType = "Element"
                   /\ C.namespaceURI # X
                   /\ EventsAt(out, path, "attributes") # {} ) =>
                 LET at == AttributesAt(out, path)
                     pfx == EmittedPrefix(out, path)
                     Y == C.namespaceURI
                 IN  \/ /\ pfx = null
                        /\ \E a \in 1..Len(at) :
                             at[a][2] = null /\ at[a][3] = Xmlns /\ at[a][4] = OrEmpty(Y)
                     \/ /\ pfx # null
                        /\ \E a \in 1..Len(at) :
                             at[a][2] = Xmlns /\ at[a][3] = pfx /\ at[a][4] = Y
                     \/ /\ pfx # null
                        /\ MapHas(heap[stack[k].prefixMap], pfx, Y)

\* The default declarations xmlns="value" in an attribute list
DefaultDeclarations(attributes, value) ==
  {a \in 1..Len(attributes) :
     attributes[a][2] = null /\ attributes[a][3] = Xmlns /\ attributes[a][4] = value}

\* The namespace declarations, default or prefixed, in an attribute list
Declarations(attributes) ==
  {a \in 1..Len(attributes) :
     \/ attributes[a][2] = null /\ attributes[a][3] = Xmlns
     \/ attributes[a][2] = Xmlns}

\* The children C5 speaks of: elements without a prefix that carry no
\* attribute in a namespace (so no declaration of their own)
PlainChild(node) ==
  /\ node.nodeType = "Element" /\ node.prefix = null
  /\ \A a \in 1..Len(node.attributes) : node.attributes[a][1] = null

\* C5: under a parent whose children are serialized in a context namespace
\* N other than null, an unprefixed child in N is emitted without namespace
\* declaration; an unprefixed child whose namespaceURI is null is emitted
\* with xmlns="" (once), and its own children are serialized in the null
\* context.
C5_InheritedAndResetDefault ==
  (status = "running" /\ hasNamespaces) =>
  \A k \in 1..Len(stack) :
    (stack[k].pc = "children" /\ stack[k].namespace # null
       /\ NodeAt(tree, stack[k].path).nodeType = "Element") =>
    \A j \in 1..Len(NodeAt(tree, stack[k].path).childNodes) :
      LET path == Append(stack[k].path, j)
          C == NodeAt(tree, path)
      IN  (PlainChild(C) /\ EventsAt(out, path, "attributes") # {}) =>
            /\ C.namespaceURI = stack[k].namespace =>
                 /\ Declarations(AttributesAt(out, path)) = {}
                 /\ EmittedPrefix(out, path) = null
            /\ C.namespaceURI = null =>
                 /\ Cardinality(DefaultDeclarations(AttributesAt(out, path),
                                                    EmptyString)) = 1
                 /\ Cardinality(Declarations(AttributesAt(out, path))) = 1
                 /\ EmittedPrefix(out, path) = null
                 /\ \A m \in 1..Len(stack) :
                      (stack[m].path = path /\ stack[m].pc = "children") =>
                        stack[m].namespace = null

\* Under a parent with a context namespace, a child in no namespace has
\* been emitted with xmlns="" and its own child, in no namespace either,
\* has been emitted without declaration
C5_Witness ==
  /\ status = "running" /\ hasNamespaces /\ Len(stack) = 2
  /\ stack[1].pc = "children" /\ stack[1].namespace # null
  /\ stack[2].pc = "children" /\ stack[2].namespace = null /\ stack[2].i = 2
  /\ PlainChild(NodeAt(tree, stack[2].path))
  /\ NodeAt(tree, stack[2].path).namespaceURI = null
  /\ DefaultDeclarations(AttributesAt(out, stack[2].path), EmptyString) # {}
  /\ NodeAt(tree, Append(stack[2].path, 1)).namespaceURI = null
  /\ EventsAt(out, Append(stack[2].path, 1), "attributes") # {}
  /\ AttributesAt(out, Append(stack[2].path, 1)) = <<>>

\* The event logs: of the call in progress or just ended, and of every call
\* that has ended, each with whether the call returned
EventLogs ==
  {[out |-> out, returned |-> status = "returned", failed |-> status = "failed",
    message |-> exception.message, namespaces |-> hasNamespaces]}
  \cup {[out |-> calls[c].out, returned |-> calls[c].result = "returned",
         failed |-> calls[c].result = "failed",
         message |-> calls[c].exception.message,
         namespaces |-> calls[c].namespaces] : c \in 1..Len(calls)}

\* C6: on both paths, an element without children that is not in the HTML
\* namespace gets openTagEnd with selfClosing = TRUE, then at once
\* endElement, and no closeTag; an element with a child gets openTagEnd with
\* selfClosing = FALSE and, by the end of the call, exactly one closeTag.
C6_SelfClosingAndCloseTag ==
  \A log \in EventLogs :
    \A i \in 1..Len(log.out) :
      log.out[i].ev = "openTagEnd" =>
        LET node == NodeAt(tree, log.out[i].node)
            closes == EventsAt(log.out, log.out[i].node, "closeTag")
        IN  /\ (Len(node.childNodes) = 0 /\ node.namespaceURI # HTML_NS) =>
                 /\ log.out[i].selfClosing
                 /\ i < Len(log.out)
                 /\ log.out[i + 1].ev = "endElement"
                 /\ log.out[i + 1].node = log.out[i].node
                 /\ closes = {}
            /\ Len(node.childNodes) > 0 =>
                 /\ ~log.out[i].selfClosing
                 /\ Cardinality(closes) <= 1
                 /\ \A c \in closes : c > i
                 /\ log.returned => Cardinality(closes) = 1

\* The same tree, with an element that has a child and one that has none,
\* has been serialized on the path with namespaces and on the one without
C6_Witness ==
  /\ Len(calls) = 2 /\ calls[1].namespaces # calls[2].namespaces
  /\ calls[1].result = "returned" /\ calls[2].result = "returned"
  /\ \A c \in 1..2 :
       /\ \E i \in 1..Len(calls[c].out) :
            calls[c].out[i].ev = "openTagEnd" /\ calls[c].out[i].selfClosing
       /\ \E i \in 1..Len(calls[c].out) : calls[c].out[i].ev = "closeTag"

\* The paths of the nodes of a tree
RECURSIVE Paths(_)
Paths(node) ==
  {<<>>} \cup
  (IF HasChildren(node)
     THEN UNION {{<<i>> \o q : q \in Paths(node.childNodes[i])} :
                   i \in 1..Len(node.childNodes)}
     ELSE {})

\* The pairs of attributes of an element with the same namespace and local
\* name, and the elements that hold such a pair
DuplicatePairs(node) ==
  {ab \in (1..Len(node.attributes)) \X (1..Len(node.attributes)) :
     /\ ab[1] < ab[2]
     /\ node.attributes[ab[1]][1] = node.attributes[ab[2]][1]
     /\ node.attributes[ab[1]][3] = node.attributes[ab[2]][3]}

DuplicateElements ==
  {q \in Paths(tree) :
     NodeAt(tree, q).nodeType = "Element" /\ DuplicatePairs(NodeAt(tree, q)) # {}}

\* Whether the first thing wrong with the attributes of an element is its
\* first repeated attribute
DuplicateComesFirst(node) ==
  \E ab \in DuplicatePairs(node) :
    \A c \in 1..(ab[2] - 1) :
      /\ xml_isName(node.attributes[c][3])
      /\ ~Contains(node.attributes[c][3], ":")
      /\ xml_isLegalChar(node.attributes[c][4])
      /\ node.attributes[c][1] = XMLNS_NS =>
           node.attributes[c][4] \notin {XMLNS_NS, EmptyString}

\* How often an attribute of the node appears in an emitted attribute list
Appearances(emitted, attr) ==
  Cardinality({e \in 1..Len(emitted) :
                 emitted[e][3] = attr[3] /\ emitted[e][1] = attr[1]})

\* What C7 says of one element in one log, for the pairs in `pairs`
DuplicateRule(log, q, pairs) ==
  LET node == NodeAt(tree, q)
  IN  IF requireWellFormed
        THEN /\ EventsAt(log.out, q, "attributes") = {}
             /\ ~log.returned
             /\ (log.failed /\ DuplicateComesFirst(node)) =>
                  log.message = ErrDuplicate
        ELSE /\ EventsAt(log.out, q, "attributes") # {}
             /\ log.failed =>
                  \E u \in Paths(tree) :
                    /\ NodeAt(tree, u).nodeType \notin KnownNodeTypes
                    /\ log.message = ErrUnknownNode(NodeAt(tree, u).nodeType)
             /\ \A ab \in pairs :
                  Appearances(AttributesAt(log.out, q), node.attributes[ab[1]]) >= 2

\* C7 as claimed: an element with two attributes of the same namespace and
\* local name, once reached, makes the call fail with the duplicate
\* attributes error before any attributes event of it when well-formedness
\* is required; otherwise no well-formedness error is raised and both
\* attributes are in the emitted list.
C7_DuplicateAttributes ==
  \A log \in EventLogs :
    \A q \in DuplicateElements :
      EventsAt(log.out, q, "beginElement") # {} =>
        DuplicateRule(log, q, DuplicatePairs(NodeAt(tree, q)))

\* C7 amended: as claimed, but when well-formedness is not required both
\* attributes are in the emitted list unless they are namespace
\* declarations (attributes of the XMLNS namespace), which are emitted or
\* suppressed like any other declaration.
C7_DuplicateAttributesButDeclarations ==
  \A log \in EventLogs :
    \A q \in DuplicateElements :
      EventsAt(log.out, q, "beginElement") # {} =>
        DuplicateRule(log, q,
          {ab \in DuplicatePairs(NodeAt(tree, q)) :
             NodeAt(tree, q).attributes[ab[1]][1] # XMLNS_NS})

\* One tree with a repeated attribute has failed on the path without
\* namespaces and on the one with them
C7_Witness ==
  /\ Len(calls) = 2 /\ calls[1].namespaces # calls[2].namespaces
  /\ requireWellFormed
  /\ \A c \in 1..2 : calls[c].exception.message = ErrDuplicate

\* C8: a tree without namespaces gives the same outcome on the path
\* without namespaces and on the path with them (started in the null
\* context with a map that binds only xml), for either value of
\* requireWellFormed: the same events in the same order, or an error in
\* both.
C8_FastPathEquivalence ==
  \A c, d \in 1..Len(calls) :
    (~calls[c].namespaces /\ calls[d].namespaces) =>
      /\ calls[c].result = calls[d].result
      /\ calls[c].out = calls[d].out
      /\ calls[c].exception = calls[d].exception

\* Whether every node of the tree is of one of the eight kinds
AllKnown == \A q \in Paths(tree) : NodeAt(tree, q).nodeType \in KnownNodeTypes

\* The nodes that have sink events of their own: all but documents and
\* fragments
EmittingNodes ==
  {q \in Paths(tree) :
     NodeAt(tree, q).nodeType \in KnownNodeTypes \ {"Document", "DocumentFragment"}}

\* Whether the node is below an element template of the HTML namespace
UnderTemplate(q) ==
  \E n \in 0..(Len(q) - 1) :
    /\ NodeAt(tree, SubSeq(q, 1, n)).nodeType = "Element"
    /\ NodeAt(tree, SubSeq(q, 1, n)).namespaceURI = HTML_NS
    /\ NodeAt(tree, SubSeq(q, 1, n)).localName = TemplateName

\* What C9 says of the nodes in `nodes`: no call fails, a call in progress
\* has a handler to run, and a call that returned has emitted events for
\* each of the nodes
NeverRaises(nodes) ==
  (~requireWellFormed /\ AllKnown) =>
    /\ status # "throwing"
    /\ status = "running" => Len(stack) > 0
    /\ \A log \in EventLogs :
         /\ ~log.failed
         /\ log.returned =>
              \A q \in nodes : \E i \in 1..Len(log.out) : log.out[i].node = q

\* C9 as claimed: with requireWellFormed = FALSE a tree of the eight known
\* kinds never raises an error, whatever its names and data: the call
\* completes and emits events for every node of the tree.
C9_NoErrorAllNodesEmitted == NeverRaises(EmittingNodes)

\* C9 amended: ... the call completes and emits events for every node of
\* the tree that is not below a template element of the HTML namespace (the
\* children of such an element are not visited on the path with namespaces).
C9_NoErrorAllButTemplateContent ==
  NeverRaises({q \in EmittingNodes : ~UnderTemplate(q)})

\* A call without required well-formedness has returned on a tree with a
\* comment that is not well-formed below an HTML template and a text after it
C9_Witness ==
  /\ ~requireWellFormed /\ AllKnown /\ status = "returned"
  /\ \E q \in EmittingNodes :
       /\ UnderTemplate(q)
       /\ NodeAt(tree, q) = CommentNode(<<"-", "-">>)
  /\ \E i \in 1..Len(out) : out[i].ev = "text"

\* C10: a failure raised anywhere in the traversal, on either path and at
\* any depth, reaches the caller of serializeNode as an InvalidStateError
\* whose message is the message of the error that was raised; the caller
\* sees no other kind of error.
C10_UniformInvalidStateError ==
  /\ status = "failed" =>
       /\ raised.kind = "Error" /\ raised.message # NoError
       /\ exception.kind = "InvalidStateError"
       /\ exception.message = raised.message
  /\ status \in {"idle", "running", "returned"} => exception = NoException
  /\ \A c \in 1..Len(calls) :
       IF calls[c].result = "failed"
         THEN /\ calls[c].exception.kind = "InvalidStateError"
              /\ calls[c].exception.message # NoError
         ELSE calls[c].exception = NoException

\* The same tree has failed two levels below its root on the path without
\* namespaces and on the path with them
C10_Witness ==
  /\ status = "failed" /\ Len(currentNode) >= 2
  /\ Len(calls) = 2 /\ calls[1].namespaces # calls[2].namespaces
  /\ calls[1].result = "failed"

\* The nodes of the tree whose kind is none of the eight known ones
UnknownNodes == {q \in Paths(tree) : NodeAt(tree, q).nodeType \notin KnownNodeTypes}

\* C11: when the walk reaches a node of an unknown kind, on either path and
\* for either value of requireWellFormed, the step raises the unknown node
\* type error and emits nothing for the node; so no call returns on a tree
\* that holds such a node where the walk can reach it.
C11_UnknownNodeRaises ==
  [][ /\ (Entering /\ Here.nodeType \notin KnownNodeTypes) =>
           /\ status' = "throwing"
           /\ raised' = [kind |-> "Error", message |-> ErrUnknownNode(Here.nodeType)]
           /\ out' = out
      /\ status' = "returned" => \A q \in UnknownNodes : UnderTemplate(q)
      /\ (status' = "failed" /\ ~requireWellFormed) =>
           \E q \in UnknownNodes :
             /\ currentNode' = q
             /\ exception'.message = ErrUnknownNode(NodeAt(tree, q).nodeType) ]_vars

\* Without required well-formedness one tree with a node of unknown kind has
\* failed at that node on the path without namespaces and on the one with them
C11_Witness ==
  /\ ~requireWellFormed /\ Len(calls) = 2
  /\ calls[1].namespaces # calls[2].namespaces
  /\ \A c \in 1..2 :
       /\ calls[c].result = "failed"
       /\ \E q \in UnknownNodes :
            calls[c].exception.message = ErrUnknownNode(NodeAt(tree, q).nodeType)
  /\ currentNode \in UnknownNodes

\* The messages of the well-formedness checks
WellFormednessMessages ==
  {ErrDuplicate, ErrXmlnsReserved, ErrUndeclare, ErrAttrName, ErrNodeName,
   ErrXmlnsPrefix, ErrNoDocumentElement, ErrComment, ErrText, ErrPubId, ErrSysId,
   ErrPITarget, ErrPIData, ErrCData, "Invalid characters in attribute value."}

\* C12 as claimed: the caller of serializeNode tells the unknown node kind
\* failure from a well-formedness violation by the kind of the error it
\* receives: a well-formedness violation arrives as an InvalidStateError,
\* the unknown node kind failure as an error of another kind.
C12_SeparateErrorKind ==
  status = "failed" =>
    IF raised.message \in WellFormednessMessages
      THEN exception.kind = "InvalidStateError"
      ELSE exception.kind # "InvalidStateError"

\* C12 amended: both failures reach the caller as an InvalidStateError; they
\* differ by the message only.  The unknown node kind failure carries
\* "Unknown node type: <nodeType>", which is no message of a well-formedness
\* check, and is raised at a node of unknown kind for either value of
\* requireWellFormed; a well-formedness message is raised only when
\* well-formedness is required, and at a node of a known kind.
C12_SeparateByMessageOnly ==
  status \in {"throwing", "failed"} =>
    /\ status = "failed" =>
         /\ exception.kind = "InvalidStateError"
         /\ exception.message = raised.message
    /\ IF currentNode \in UnknownNodes
         THEN /\ raised.message = ErrUnknownNode(NodeAt(tree, currentNode).nodeType)
              /\ raised.message \notin WellFormednessMessages
         ELSE /\ raised.message \in WellFormednessMessages
              /\ requireWellFormed

\* With required well-formedness, a tree has failed at a node of unknown
\* kind on both paths and the caller holds an InvalidStateError
C12_Witness ==
  /\ status = "failed" /\ requireWellFormed
  /\ currentNode \in UnknownNodes
  /\ exception.kind = "InvalidStateError"
  /\ exception.message \notin WellFormednessMessages
  /\ Len(calls) = 2 /\ calls[1].namespaces # calls[2].namespaces
  /\ calls[1].exception = calls[2].exception

\* Whether the root element carries the declaration xmlns:prefix="ns"
BoundAtRoot(prefix, ns) ==
  \E a \in 1..Len(tree.attributes) : tree.attributes[a] = XmlnsPrefix(prefix, ns)

\* The attributes of a node that are in a namespace and are no declarations
NamespacedAttributes(node) ==
  {a \in 1..Len(node.attributes) :
     node.attributes[a][1] \notin {null, XMLNS_NS}}

ElementPaths == {q \in Paths(tree) : NodeAt(tree, q).nodeType = "Element"}

\* The trees of C13: the root is an element, every prefix of an element or
\* of an attribute is declared on the root for the namespace of that node,
\* and the declarations of the root bind distinct prefixes to distinct
\* namespaces
PrefixesDeclaredAtRoot ==
  /\ hasNamespaces /\ tree.nodeType = "Element"
  /\ \A q \in ElementPaths :
       LET node == NodeAt(tree, q)
       IN  /\ node.prefix # null => BoundAtRoot(node.prefix, node.namespaceURI)
           /\ \A a \in NamespacedAttributes(node) :
                node.attributes[a][2] # null =>
                  BoundAtRoot(node.attributes[a][2], node.attributes[a][1])
  /\ \A a, b \in 1..Len(tree.attributes) :
       (a # b /\ tree.attributes[a][2] = Xmlns /\ tree.attributes[b][2] = Xmlns) =>
         /\ tree.attributes[a][3] # tree.attributes[b][3]
         /\ tree.attributes[a][4] # tree.attributes[b][4]

\* Whether the emitted attribute list holds the attribute under its own prefix
EmittedWithOwnPrefix(emitted, attr) ==
  \E e \in 1..Len(emitted) :
    emitted[e][1] = attr[1] /\ emitted[e][2] = attr[2] /\ emitted[e][3] = attr[3]

AttributeNamespacesDeclared ==
  \A q \in ElementPaths :
    \A a \in NamespacedAttributes(NodeAt(tree, q)) :
      \E b \in 1..Len(tree.attributes) :
        /\ tree.attributes[b][2] = Xmlns
        /\ tree.attributes[b][4] = NodeAt(tree, q).attributes[a][1]

C14_NoStateSurvives ==
  [][ /\ (status # "running" /\ status' = "running") =>
           /\ level' = 0 /\ out' = <<>> /\ generated' = <<>>
           /\ Len(stack') = 1 /\ stack'[1].path = <<>>
           /\ hasNamespaces =>
                /\ stack'[1].namespace = null
                /\ prefixIndex' = 1
                /\ DOMAIN heap'[stack'[1].prefixMap] = {XML_NS}
                /\ heap'[stack'[1].prefixMap][XML_NS] = <<Xml>>
      /\ \A c, d \in 1..Len(calls') :
           calls'[c].namespaces = calls'[d].namespaces =>
             /\ calls'[c].out = calls'[d].out
             /\ calls'[c].result = calls'[d].result
             /\ calls'[c].exception = calls'[d].exception
             /\ calls'[c].generated = calls'[d].generated ]_vars

\* Two calls in a row on the path with namespaces; the first failed below
\* the root, after a prefix had been generated
C14_Witness ==
  /\ Len(calls) = 2
  /\ calls[1].namespaces /\ calls[2].namespaces
  /\ calls[1].result = "failed" /\ calls[1].level > 0
  /\ Len(calls[1].generated) > 0

\* The comments whose data holds a hyphen that is the last character or is
\* followed by another hyphen
BadComments ==
  {q \in Paths(tree) :
     /\ NodeAt(tree, q).nodeType = "Comment"
     /\ \E i \in 1..Len(NodeAt(tree, q).data) :
          /\ NodeAt(tree, q).data[i] = "-"
          /\ i = Len(NodeAt(tree, q).data) \/ NodeAt(tree, q).data[i + 1] = "-"}

\* C15: for a comment whose data contains "--" or ends with "-": when
\* well-formedness is required the walk fails at that comment with the
\* comment error and no comment event is ever emitted for it; otherwise the
\* walk goes on past it and its comment event carries the data of the node,
\* character for character.
C15_MalformedComment ==
  \A q \in BadComments :
    IF requireWellFormed
      THEN /\ (currentNode = q /\ Len(q) > 0) =>
                /\ status \in {"throwing", "failed"}
                /\ raised.message = ErrComment
           /\ \A log \in EventLogs :
                /\ EventsAt(log.out, q, "comment") = {}
                /\ log.returned => UnderTemplate(q)
      ELSE /\ (currentNode = q /\ Len(q) > 0) => status \notin {"throwing", "failed"}
           /\ \A log \in EventLogs :
                /\ \A i \in EventsAt(log.out, q, "comment") :
                     log.out[i].data = NodeAt(tree, q).data
                /\ Cardinality(EventsAt(log.out, q, "comment")) <= 1
                /\ (log.returned /\ ~UnderTemplate(q)) =>
                     Cardinality(EventsAt(log.out, q, "comment")) = 1
                /\ log.failed => log.message # ErrComment

\* Without required well-formedness a comment that ends with a hyphen and
\* holds "<" and "&" has been emitted on both paths
C15_Witness ==
  /\ ~requireWellFormed /\ Len(calls) = 2
  /\ calls[1].namespaces # calls[2].namespaces
  /\ \E q \in BadComments :
       /\ Contains(NodeAt(tree, q).data, "<")
       /\ \A c \in 1..2 :
            \E i \in EventsAt(calls[c].out, q, "comment") :
              calls[c].out[i].data = NodeAt(tree, q).data

\* A string with each of its characters replaced as a table says, the
\* characters outside the table copied
RECURSIVE Replaced(_, _)
Replaced(s, table) ==
  IF Len(s) = 0 THEN <<>>
  ELSE Replaced(SubSeq(s, 1, Len(s) - 1), table) \o
       (IF s[Len(s)] \in DOMAIN table THEN table[s[Len(s)]] ELSE <<s[Len(s)]>>)

\* The replacements C16 names
TextTable ==
  [c \in {"&", "<", ">"} |->
     IF c = "&" THEN <<"&", "a", "m", "p", ";">>
     ELSE IF c = "<" THEN <<"&", "l", "t", ";">>
     ELSE <<"&", "g", "t", ";">>]

\* C16: in the default mode the data of every text event is the data of its
\* node with each "&" replaced by "&amp;", each "<" by "&lt;" and each ">"
\* by "&gt;", character by character and everything else copied in order;
\* so "&amp;" is emitted as "&amp;amp;".
C16_DefaultTextEscaping ==
  ~noDoubleEncoding =>
    \A log \in EventLogs :
      \A i \in 1..Len(log.out) :
        log.out[i].ev = "text" =>
          LET data == NodeAt(tree, log.out[i].node).data
          IN  /\ log.out[i].data = Replaced(data, TextTable)
              /\ data = <<"&", "a", "m", "p", ";">> =>
                   log.out[i].data = <<"&", "a", "m", "p", ";", "a", "m", "p", ";">>

\* The text "a & b < c > d" has been emitted as "a &amp; b &lt; c &gt; d" on
\* both paths
C16_Witness ==
  /\ ~noDoubleEncoding /\ Len(calls) = 2
  /\ calls[1].namespaces # calls[2].namespaces
  /\ tree.childNodes[1] =
       TextNode(<<"a", " ", "&", " ", "b", " ", "<", " ", "c", " ", ">", " ", "d">>)
  /\ \A c \in 1..2 :
       \E i \in 1..Len(calls[c].out) :
         /\ calls[c].out[i].ev = "text"
         /\ calls[c].out[i].data =
              <<"a", " ", "&", "a", "m", "p", ";", " ", "b", " ", "&", "l", "t", ";",
                " ", "c", " ", "&", "g", "t", ";", " ", "d">>

\* How often a character occurs in a string
Count(s, c) == Cardinality({i \in 1..Len(s) : s[i] = c})

\* How often a string occurs in a string
CountSub(s, sub) ==
  Cardinality({i \in 1..(Len(s) - Len(sub) + 1) : SubSeq(s, i, i + Len(sub) - 1) = sub})

\* The elements of a tree without namespaces whose attributes event holds
\* one entry for each of their attributes, in the order of the attributes
EmittedAttributes(log) ==
  {q \in ElementPaths :
     /\ EventsAt(log.out, q, "attributes") # {}
     /\ Len(AttributesAt(log.out, q)) = Len(NodeAt(tree, q).attributes)
     /\ \A a \in 1..Len(NodeAt(tree, q).attributes) :
          /\ NodeAt(tree, q).attributes[a][1] = null
          /\ AttributesAt(log.out, q)[a][3] = NodeAt(tree, q).attributes[a][3]}

\* C17: in either escaping mode no emitted attribute value holds a literal
\* "<", ">" or double quote: the value holds "&lt;", "&gt;" and "&quot;"
\* once for each "<", ">" and double quote of the attribute's value.
C17_AttributeValueEscaped ==
  \A log \in EventLogs :
    \A q \in EmittedAttributes(log) :
      \A a \in 1..Len(NodeAt(tree, q).attributes) :
        LET value == NodeAt(tree, q).attributes[a][4]
            emitted == AttributesAt(log.out, q)[a][4]
        IN  /\ ~Contains(emitted, "<") /\ ~Contains(emitted, ">")
            /\ ~Contains(emitted, "\"")
            /\ CountSub(emitted, <<"&", "l", "t", ";">>) = Count(value, "<")
            /\ CountSub(emitted, <<"&", "g", "t", ";">>) = Count(value, ">")
            /\ CountSub(emitted, <<"&", "q", "u", "o", "t", ";">>) = Count(value, "\"")

\* The characters of a string that are in a set, in their order
RECURSIVE Keep(_, _)
Keep(s, set) ==
  IF Len(s) = 0 THEN <<>>
  ELSE (IF Head(s) \in set THEN <<Head(s)>> ELSE <<>>) \o Keep(Tail(s), set)

\* The characters that the references &#x9; &#xA; &#xD; of a string stand
\* for, in their order
RECURSIVE References(_)
References(s) ==
  IF Len(s) < 5 THEN <<>>
  ELSE IF SubSeq(s, 1, 5) = <<"&", "#", "x", "9", ";">>
    THEN <<"\t">> \o References(SubSeq(s, 6, Len(s)))
  ELSE IF SubSeq(s, 1, 5) = <<"&", "#", "x", "A", ";">>
    THEN <<"\n">> \o References(SubSeq(s, 6, Len(s)))
  ELSE IF SubSeq(s, 1, 5) = <<"&", "#", "x", "D", ";">>
    THEN <<"\r">> \o References(SubSeq(s, 6, Len(s)))
  ELSE References(Tail(s))

\* What C18 says of a string and its emitted form: the characters of
\* `escaped` are gone and stand as references in their order, the others of
\* tab, newline and carriage return are copied in their order
WhiteSpaceRule(source, emitted, escaped) ==
  /\ Keep(emitted, escaped) = <<>>
  /\ References(emitted) = Keep(source, escaped)
  /\ Keep(emitted, {"\t", "\n", "\r"} \ escaped) =
       Keep(source, {"\t", "\n", "\r"} \ escaped)

\* C18: in noDoubleEncoding mode every tab, newline and carriage return of
\* an attribute value is emitted as &#x9;, &#xA; and &#xD;, and every
\* carriage return of a text as &#xD; (its tabs and newlines copied); in
\* the default mode the three characters are copied and no such reference
\* is emitted.  (For data that holds no "#".)
C18_WhiteSpaceReferences ==
  \A log \in EventLogs :
    /\ \A q \in EmittedAttributes(log) :
         \A a \in 1..Len(NodeAt(tree, q).attributes) :
           ~Contains(NodeAt(tree, q).attributes[a][4], "#") =>
             WhiteSpaceRule(NodeAt(tree, q).attributes[a][4],
                            AttributesAt(log.out, q)[a][4],
                            IF noDoubleEncoding THEN {"\t", "\n", "\r"} ELSE {})
    /\ \A i \in 1..Len(log.out) :
         (log.out[i].ev = "text" /\ ~Contains(NodeAt(tree, log.out[i].node).data, "#")) =>
           WhiteSpaceRule(NodeAt(tree, log.out[i].node).data, log.out[i].data,
                          IF noDoubleEncoding THEN {"\r"} ELSE {})

\* In noDoubleEncoding mode the string tab, newline, carriage return among
\* letters has been emitted as an attribute value with three references and
\* as a text with one reference
C18_Witness ==
  /\ noDoubleEncoding /\ status = "returned"
  /\ tree.childNodes[1] = TextNode(<<"a", "\t", "b", "\n", "c", "\r", "\n">>)
  /\ AttributesAt(out, <<>>)[1][4] =
       <<"a", "&", "#", "x", "9", ";", "b", "&", "#", "x", "A", ";", "c",
         "&", "#", "x", "D", ";", "&", "#", "x", "A", ";">>
  /\ \E i \in 1..Len(out) :
       /\ out[i].ev = "text"
       /\ out[i].data = <<"a", "\t", "b", "\n", "c", "&", "#", "x", "D", ";", "\n">>

\* The events of one node in a log, in their order
EventsOf(log, q) == SelectSeq(log, LAMBDA e : e.node = q)

\* Whether s is the beginning of t
IsPrefix(s, t) == Len(s) <= Len(t) /\ s = SubSeq(t, 1, Len(s))

\* Document order: a node comes before its descendants and before the
\* nodes of the subtrees of its later siblings
Before(p, q) ==
  /\ p # q
  /\ \/ IsPrefix(p, q)
     \/ \E k \in 1..Len(p) :
          k <= Len(q) /\ SubSeq(p, 1, k - 1) = SubSeq(q, 1, k - 1) /\ p[k] < q[k]

\* Whether node q may start where the elements of `open` are open: its
\* parent is the innermost open element (or the document or fragment at the
\* root when none is open)
StartsInParent(q, open) ==
  IF Len(open) = 0
    THEN Len(q) = 0 \/ (Len(q) = 1 /\ tree.nodeType # "Element")
    ELSE Len(q) > 0 /\ open[Len(open)] = SubSeq(q, 1, Len(q) - 1)

\* Whether the events of a log from the i-th on are properly nested, given
\* the elements open before it; a complete log leaves no element open
RECURSIVE Nested(_, _, _, _)
Nested(log, i, open, complete) ==
  IF i > Len(log) THEN complete => Len(open) = 0
  ELSE
    LET e == log[i]
    IN  CASE e.ev = "beginElement" ->
               StartsInParent(e.node, open) /\ Nested(log, i + 1, Append(open, e.node), complete)
          [] e.ev \in {"openTagBegin", "attributes", "openTagEnd", "closeTag"} ->
               /\ Len(open) > 0 /\ open[Len(open)] = e.node
               /\ Nested(log, i + 1, open, complete)
          [] e.ev = "endElement" ->
               /\ Len(open) > 0 /\ open[Len(open)] = e.node
               /\ Nested(log, i + 1, SubSeq(open, 1, Len(open) - 1), complete)
          [] OTHER ->
               StartsInParent(e.node, open) /\ Nested(log, i + 1, open, complete)

\* What C19 says of a log, when closes(node) tells whether an element gets
\* a closeTag: the events of each element are, in this order, beginElement,
\* openTagBegin, attributes, openTagEnd, closeTag if it gets one, endElement
\* (all of them once the call has returned), with one name; the events are
\* properly nested, those of the children between the openTagEnd and the
\* closing events of their parent; and the nodes start in document order.
EventOrder(log, closes(_)) ==
  /\ \A q \in ElementPaths :
       LET own == EventsOf(log.out, q)
           kinds == [k \in 1..Len(own) |-> own[k].ev]
           full == <<"beginElement", "openTagBegin", "attributes", "openTagEnd">> \o
                   (IF closes(NodeAt(tree, q)) THEN <<"closeTag">> ELSE <<>>) \o
                   <<"endElement">>
       IN  /\ IsPrefix(kinds, full)
           /\ (log.returned /\ Len(own) > 0) => kinds = full
           /\ \A k \in 1..Len(own) : own[k].ev # "attributes" => own[k].name = own[1].name
  /\ Nested(log.out, 1, <<>>, log.returned)
  /\ \A i, j \in 1..Len(log.out) :
       (i < j /\ log.out[i].ev \notin {"openTagBegin", "attributes", "openTagEnd",
                                       "closeTag", "endElement"}
              /\ log.out[j].ev \notin {"openTagBegin", "attributes", "openTagEnd",
                                       "closeTag", "endElement"}) =>
         Before(log.out[i].node, log.out[j].node)

HasChildNodes(node) == Len(node.childNodes) > 0

\* C19 as claimed: the order above on either path, the closeTag only, and
\* always, for an element that has children.
C19_ElementEventOrder ==
  \A log \in EventLogs : EventOrder(log, HasChildNodes)

ClosesTag(node) ==
  \/ Len(node.childNodes) > 0
  \/ node.namespaceURI = HTML_NS /\ node.localName \notin _VoidElementNames

\* C19 amended: the order above on either path, the closeTag for an element
\* that has children and also for a childless element of the HTML namespace
\* that is not a void element.
C19_ElementEventOrderHtml ==
  \A log \in EventLogs : EventOrder(log, ClosesTag)

\* A document with a doctype, an element, in it an element and a leaf after
\* it, has been serialized on both paths
C19_Witness ==
  /\ Len(calls) = 2 /\ calls[1].namespaces # calls[2].namespaces
  /\ tree.nodeType = "Document" /\ Len(tree.childNodes) = 2
  /\ \A c \in 1..2 :
       /\ calls[c].result = "returned"
       /\ Cardinality({i \in 1..Len(calls[c].out) : calls[c].out[i].ev = "endElement"}) = 2
       /\ Len(EventsOf(calls[c].out, <<2, 2>>)) = 1

\* The tree is a document none of whose children is an element
DocumentWithoutElement ==
  /\ tree.nodeType = "Document"
  /\ \A i \in 1..Len(tree.childNodes) : tree.childNodes[i].nodeType # "Element"

\* C20: for a document without document element, whatever other children
\* it has: when well-formedness is required every call fails with the
\* missing document element error and no sink event is ever emitted;
\* otherwise no call fails, and a call that returned has emitted the events
\* of the children one after the other in tree order.
C20_MissingDocumentElement ==
  DocumentWithoutElement =>
    IF requireWellFormed
      THEN /\ status # "returned"
           /\ status \in {"throwing", "failed"} => raised.message = ErrNoDocumentElement
           /\ \A log \in EventLogs :
                /\ log.out = <<>>
                /\ ~log.returned
                /\ log.failed => log.message = ErrNoDocumentElement
      ELSE AllKnown =>
             /\ status # "throwing"
             /\ \A log \in EventLogs :
                  /\ ~log.failed
                  /\ \A i \in 1..Len(log.out) : log.out[i].node = <<i>>
                  /\ log.returned => Len(log.out) = Len(tree.childNodes)

\* With required well-formedness a document with a doctype, a comment and a
\* processing instruction, and no element, has failed on both paths
C20_Witness ==
  /\ DocumentWithoutElement /\ requireWellFormed
  /\ Len(tree.childNodes) = 3
  /\ Len(calls) = 2 /\ calls[1].namespaces # calls[2].namespaces
  /\ \A c \in 1..2 :
       /\ calls[c].exception.message = ErrNoDocumentElement
       /\ calls[c].out = <<>>

\* C21: a prefix generated for the namespace U is, in the prefix map of the
\* element at the moment of its generation, bound to no namespace other
\* than U.
C21_GeneratedPrefixCollisionFree ==
  \A log \in GeneratedLogs :
    \A k \in 1..Len(log) :
      \A ns \in DOMAIN log[k].before :
        MapHas(log[k].before, log[k].prefix, ns) => ns = log[k].ns

\* The namespace that the emitted declarations give a prefix (null for the
\* default namespace) at an element: the value of the last declaration for
\* it among the attributes emitted for the element, else for its nearest
\* ancestor that has one; at the top xml is bound to the XML namespace, the
\* default namespace is empty and any other prefix is unbound
RECURSIVE DeclaredNamespace(_, _, _)
DeclaredNamespace(log, q, prefix) ==
  LET emitted == IF EventsAt(log, q, "attributes") # {}
                   THEN AttributesAt(log, q) ELSE <<>>
      decls == {a \in 1..Len(emitted) :
                  IF prefix = null
                    THEN emitted[a][2] = null /\ emitted[a][3] = Xmlns
                    ELSE emitted[a][2] = Xmlns /\ emitted[a][3] = prefix}
  IN  IF decls # {}
        THEN emitted[CHOOSE a \in decls : \A b \in decls : b <= a][4]
      ELSE IF Len(q) > 0
        THEN DeclaredNamespace(log, SubSeq(q, 1, Len(q) - 1), prefix)
      ELSE IF prefix = Xml THEN XML_NS
      ELSE IF prefix = null THEN EmptyString
      ELSE <<"unbound">>

\* C22: when well-formedness is required, every element is emitted under a
\* name that the emitted declarations resolve to its namespace: for p:local
\* the nearest emitted declaration of p, on the element or an ancestor (or
\* the built-in xml), binds p to the namespace of the element; for a bare
\* name the nearest emitted default declaration (none meaning no namespace)
\* is the namespace of the element.
C22_EmittedNamespacesPreserved ==
  (requireWellFormed /\ hasNamespaces) =>
    \A q \in ElementPaths :
      EventsAt(out, q, "attributes") # {} =>
        DeclaredNamespace(out, q, EmittedPrefix(out, q)) =
          OrEmpty(NodeAt(tree, q).namespaceURI)

\* C23: when well-formedness is required, no attribute list emitted for an
\* element holds two entries with the same emitted name (prefix and local
\* name); so a declaration xmlns:prefix appears at most once in it.
C23_EmittedAttributeNamesDistinct ==
  requireWellFormed =>
    \A k \in 1..Len(out) :
      out[k].ev = "attributes" =>
        \A i, j \in 1..Len(out[k].attributes) :
          (out[k].attributes[i][2] = out[k].attributes[j][2]
             /\ out[k].attributes[i][3] = out[k].attributes[j][3]) => i = j

\* The children of a frame's element that took step 12.6: emitted under their
\* bare name, without prefix, in a namespace other than the context and
\* other than their own default declaration
DefaultGenerated(k) ==
  {j \in 1..Len(NodeAt(tree, stack[k].path).childNodes) :
     LET path == Append(stack[k].path, j)
         C == NodeAt(tree, path)
     IN  /\ C.nodeType = "Element" /\ C.prefix = null
         /\ C.namespaceURI # stack[k].namespace
         /\ EventsAt(out, path, "attributes") # {}
         /\ EmittedPrefix(out, path) = null
         /\ _recordNamespaceInformation(C, MapCopy(heap[stack[k].prefixMap])).default
              # C.namespaceURI}

\* The entries of an attribute list with the emitted name xmlns
NamedXmlns(attributes) ==
  {a \in 1..Len(attributes) : attributes[a][2] = null /\ attributes[a][3] = Xmlns}

\* C24: an element that gets the generated declaration xmlns="ns" is emitted,
\* for both values of requireWellFormed, with exactly one attribute named
\* xmlns, the generated one, and its children are serialized in the context
\* namespace ns.
C24_OneDefaultDeclaration ==
  (status = "running" /\ hasNamespaces) =>
  \A k \in 1..Len(stack) :
    stack[k].pc = "children" =>
    \A j \in DefaultGenerated(k) :
      LET path == Append(stack[k].path, j)
          own == AttributesAt(out, path)
      IN  /\ Cardinality(NamedXmlns(own)) = 1
          /\ \A a \in NamedXmlns(own) :
               own[a][4] = OrEmpty(NodeAt(tree, path).namespaceURI)
          /\ \A m \in 1..Len(stack) :
               (stack[m].path = path /\ stack[m].pc = "children") =>
                 stack[m].namespace = NodeAt(tree, path).namespaceURI

\* The attributes named xmlns of no namespace that a node carries
PlainXmlns(node) ==
  {a \in 1..Len(node.attributes) :
     node.attributes[a][1] = null /\ node.attributes[a][3] = Xmlns}

\* C24 (amended): an element that gets the generated declaration xmlns="ns"
\* is emitted with that declaration first and with none of its own default
\* declarations (attributes xmlns of the XMLNS namespace); the only other
\* entries named xmlns are its attributes xmlns of no namespace, which exist
\* only when well-formedness is not required; its children are serialized in
\* the context namespace ns.
C24_OneGeneratedDeclaration ==
  (status = "running" /\ hasNamespaces) =>
  \A k \in 1..Len(stack) :
    stack[k].pc = "children" =>
    \A j \in DefaultGenerated(k) :
      LET path == Append(stack[k].path, j)
          C == NodeAt(tree, path)
          own == AttributesAt(out, path)
      IN  /\ own[1] = <<null, null, Xmlns, OrEmpty(C.namespaceURI)>>
          /\ \A a \in NamedXmlns(own) : own[a][1] = null
          /\ Cardinality(NamedXmlns(own)) = 1 + Cardinality(PlainXmlns(C))
          /\ requireWellFormed => Cardinality(NamedXmlns(own)) = 1
          /\ \A m \in 1..Len(stack) :
               (stack[m].path = path /\ stack[m].pc = "children") =>
                 stack[m].namespace = C.namespaceURI

\* An element with a default declaration for another namespace has been
\* emitted with the generated declaration of its own namespace only, and its
\* child is being serialized in that namespace
C24_Witness ==
  /\ status = "running" /\ hasNamespaces /\ requireWellFormed
  /\ Len(stack) = 2 /\ stack[1].pc = "children" /\ stack[2].pc = "children"
  /\ stack[2].path = <<1>> /\ 1 \in DefaultGenerated(1)
  /\ NodeAt(tree, <<1>>).attributes = <<XmlnsDefault(NsB)>>
  /\ NodeAt(tree, <<1>>).namespaceURI = NsA
  /\ AttributesAt(out, <<1>>) = << <<null, null, Xmlns, NsA>> >>
  /\ stack[2].namespace = NsA

\* C25: in every prefix map of a traversal with namespaces, the root map and
\* the copy of every element after its declarations are recorded and after
\* any prefix is added, xml is bound to the XML namespace and to no other
\* namespace: no declaration removes or rebinds it.
C25_XmlPrefixBinding ==
  hasNamespaces =>
    \A ref \in 1..Len(heap) :
      /\ MapHas(heap[ref], Xml, XML_NS)
      /\ \A ns \in DOMAIN heap[ref] :
           MapHas(heap[ref], Xml, ns) => ns = XML_NS

\* C26 as claimed: with required well-formedness the step that enters an
\* element with the prefix xmlns raises the error and emits nothing,
\* whatever the namespace of the element and the context namespace.
C26_XmlnsPrefixRejected ==
  [][ (Entering /\ requireWellFormed /\ Here.nodeType = "Element"
         /\ Here.prefix = Xmlns) =>
        (status' = "throwing" /\ out' = out) ]_vars

\* C26 (amended): with required well-formedness an element with the prefix
\* xmlns whose namespace differs from the context namespace is rejected with
\* nothing emitted (with the message of the prefix when its local name is
\* well formed); one whose namespace is the context namespace is begun under
\* its bare local name.
C26_XmlnsPrefixRejectedOutOfContext ==
  [][ (Entering /\ requireWellFormed /\ Here.nodeType = "Element"
         /\ Here.prefix = Xmlns) =>
        IF Here.namespaceURI # Top.namespace
          THEN /\ status' = "throwing" /\ out' = out
               /\ (xml_isName(Here.localName) /\ ~Contains(Here.localName, ":")) =>
                    raised'.message = ErrXmlnsPrefix
          ELSE (xml_isName(Here.localName) /\ ~Contains(Here.localName, ":")) =>
                 /\ Len(out') > Len(out)
                 /\ out'[Len(out) + 1].ev = "beginElement"
                 /\ out'[Len(out) + 1].name = Here.localName ]_vars

\* Below the element xmlns of the XMLNS namespace a first child with the
\* prefix xmlns in that namespace has been emitted under its bare name, and a
\* second one in another namespace has been rejected
C26_Witness ==
  /\ requireWellFormed /\ status = "failed" /\ currentNode = <<2>>
  /\ exception.message = ErrXmlnsPrefix
  /\ NodeAt(tree, <<1>>).prefix = Xmlns /\ NodeAt(tree, <<2>>).prefix = Xmlns
  /\ EventsAt(out, <<1>>, "endElement") # {}
  /\ EmittedPrefix(out, <<1>>) = null
  /\ EventsAt(out, <<2>>, "beginElement") = {}

\* C27: with required well-formedness the error of an empty namespace
\* declaration is raised only for a prefixed one, xmlns:p="": the element
\* at which it is raised carries such a declaration, and a default
\* declaration xmlns="" that is not skipped is emitted without that error.
C27_EmptyDeclarationError ==
  (requireWellFormed /\ status = "throwing" /\ exception.message = ErrUndeclare) =>
    \E a \in 1..Len(NodeAt(tree, currentNode).attributes) :
      LET attr == NodeAt(tree, currentNode).attributes[a]
      IN  attr[1] = XMLNS_NS /\ attr[2] # null /\ attr[4] = EmptyString

\* An entity or character reference begins at position i of s: "&", then a
\* name, or "#" and digits or letters, then ";"
ReferenceAt(s, i) ==
  /\ s[i] = "&"
  /\ \E j \in (i + 2)..Len(s) :
       /\ s[j] = ";"
       /\ LET body == SubSeq(s, i + 1, j - 1)
          IN  \/ xml_isName(body)
              \/ /\ Len(body) >= 2 /\ body[1] = "#"
                 /\ \A k \in 2..Len(body) : body[k] \in Letters \cup Digits

\* Every "&" of a string begins a reference
OnlyReferences(s) == \A i \in 1..Len(s) : s[i] = "&" => ReferenceAt(s, i)

\* C28: in noDoubleEncoding mode every "&" of the emitted data of a text
\* and of an emitted attribute value begins an entity reference, "&", a
\* name, then ";": any other "&" of the source is emitted as "&amp;", so
\* "&&amp;" is emitted as "&amp;&amp;".
C28_OnlyReferencesKept ==
  noDoubleEncoding =>
    \A log \in EventLogs :
      \A i \in 1..Len(log.out) :
        /\ log.out[i].ev = "text" =>
             /\ OnlyReferences(log.out[i].data)
             /\ NodeAt(tree, log.out[i].node).data = <<"&", "&", "a", "m", "p", ";">> =>
                  log.out[i].data = Amp \o Amp
        /\ log.out[i].ev = "attributes" =>
             \A a \in 1..Len(log.out[i].attributes) :
               OnlyReferences(log.out[i].attributes[a][4])

\* The number of elements among the proper ancestors of the node at a path
ElementAncestors(path) ==
  Cardinality({n \in 0..(Len(path) - 1) :
                 NodeAt(tree, SubSeq(path, 1, n)).nodeType = "Element"})

\* C29: level is 0 when serializeNode starts and never negative; every sink
\* event of a node carries as level the number of element ancestors of the
\* node in the serialized tree (children of a Document or DocumentFragment
\* are not counted a level down), so closeTag and endElement of an element
\* carry the level of its beginElement; and level is 0 when a call has
\* returned.
C29_LevelCounter ==
  /\ level >= 0
  /\ (status = "running" /\ Len(stack) = 1 /\ Top.pc = "enter") => level = 0
  /\ status = "returned" => level = 0
  /\ \A c \in 1..Len(calls) : calls[c].result = "returned" => calls[c].level = 0
  /\ \A log \in EventLogs :
       \A i \in 1..Len(log.out) :
         /\ log.out[i].level = ElementAncestors(log.out[i].node)
         /\ log.out[i].ev \in {"closeTag", "endElement"} =>
              \A b \in EventsAt(log.out, log.out[i].node, "beginElement") :
                log.out[b].level = log.out[i].level

\* A call has returned with level 0 after a beginElement at level 0, a
\* closeTag at level 1 and an event at level 2
C29_Witness ==
  /\ status = "returned" /\ level = 0
  /\ \E i, j, k \in 1..Len(out) :
       /\ out[i].ev = "beginElement" /\ out[i].level = 0
       /\ out[j].ev = "closeTag" /\ out[j].level = 1
       /\ out[k].level = 2

-----------------------------------------------------------------------------
(* The builder: the methods of XMLBuilderNodeImpl that change the document *)
(* that is serialized afterwards.  tree is the document; this is the path  *)
(* of the node the builder method is called on.  _node is called on any   *)
(* node and with any name.  The methods that cast this.as.element and the  *)
(* validation of content and identifiers are taken on the inputs they      *)
(* accept: att, removeAtt, txt, com, raw, dat, ins and import are called   *)
(* on an element, with content of legal characters.                        *)

\* Document.doctype and Document.documentElement: the index of the first
\* child of that kind, 0 for null
doctype(doc) ==
  IF \E i \in 1..Len(doc.childNodes) : doc.childNodes[i].nodeType = "DocumentType"
    THEN CHOOSE i \in 1..Len(doc.childNodes) :
           /\ doc.childNodes[i].nodeType = "DocumentType"
           /\ \A j \in 1..(i - 1) : doc.childNodes[j].nodeType # "DocumentType"
    ELSE 0

documentElement(doc) ==
  IF \E i \in 1..Len(doc.childNodes) : doc.childNodes[i].nodeType = "Element"
    THEN CHOOSE i \in 1..Len(doc.childNodes) :
           /\ doc.childNodes[i].nodeType = "Element"
           /\ \A j \in 1..(i - 1) : doc.childNodes[j].nodeType # "Element"
    ELSE 0

\* Element.tagName: the qualified name
tagName(element) ==
  IF element.prefix = null THEN element.localName
  ELSE element.prefix \o <<":">> \o element.localName

\* extractQName(name): <<prefix, localName>>, the prefix null without a colon
extractQName(name) ==
  IF Contains(name, ":")
    THEN LET c == CHOOSE i \in 1..Len(name) :
                    name[i] = ":" /\ \A j \in 1..(i - 1) : name[j] # ":"
         IN  <<SubSeq(name, 1, c - 1), SubSeq(name, c + 1, Len(name))>>
    ELSE <<null, name>>

\* createElementNS(namespace, qualifiedName), Document.ts lines 171-192,
\* for a namespace that is given, and createElement(name), lines 160-162,
\* for none.  createElementNS raises an error and creates nothing for a
\* name that is not a Name or not a QName, for a prefix without a
\* namespace (null or empty), for the prefix xml outside the XML namespace
\* and for the XMLNS namespace unless both the prefix and the qualified
\* name are xmlns; the error is the result.  An empty namespace is taken
\* for null
createElement(namespace, name) ==
  LET prefix == extractQName(name)[1]
      localName == extractQName(name)[2]
      isQName == /\ xml_isName(name)
                 /\ prefix # null =>
                      /\ Len(prefix) > 0 /\ prefix[1] # ":"
                      /\ xml_isName(localName) /\ ~Contains(localName, ":")
      DOMError(error) == [nodeType |-> "DOMError", name |-> error]
  IN  IF namespace = null THEN Element(name, null, null, <<>>, <<>>)
      ELSE IF ~xml_isName(name) THEN DOMError("InvalidCharacterError")
      ELSE IF ~isQName THEN DOMError("NamespaceError")
      ELSE IF prefix # null /\ OrNull(namespace) = null THEN DOMError("NamespaceError")
      ELSE IF prefix = Xml /\ namespace # XML_NS THEN DOMError("NamespaceError")
      ELSE IF namespace = XMLNS_NS /\ (prefix # Xmlns \/ name # Xmlns)
        THEN DOMError("NamespaceError")
      ELSE Element(localName, prefix, OrNull(namespace), <<>>, <<>>)

\* replaceChild(node, old) and insertBefore(node, ref) on the document; old
\* and ref are indexes, ref = 0 for null
replaceChild(doc, node, old) == [doc EXCEPT !.childNodes[old] = node]

insertBefore(doc, node, ref) ==
  [doc EXCEPT !.childNodes =
     IF ref = 0 THEN Append(@, node)
     ELSE SubSeq(@, 1, ref - 1) \o <<node>> \o SubSeq(@, ref, Len(@))]

\* appendChild(child) on the node at path
RECURSIVE appendChild(_, _, _)
appendChild(node, path, child) ==
  IF Len(path) = 0 THEN [node EXCEPT !.childNodes = Append(@, child)]
  ELSE [node EXCEPT !.childNodes[Head(path)] = appendChild(@, Tail(path), child)]

\* _remove() on the node at the path, which is not empty
RECURSIVE _remove(_, _)
_remove(node, path) ==
  IF Len(path) = 1
    THEN [node EXCEPT !.childNodes =
            SubSeq(@, 1, Head(path) - 1) \o SubSeq(@, Head(path) + 1, Len(@))]
    ELSE [node EXCEPT !.childNodes[Head(path)] = _remove(@, Tail(path))]

\* The tree with the node at the path replaced
RECURSIVE WithNode(_, _, _)
WithNode(node, path, new) ==
  IF Len(path) = 0 THEN new
  ELSE [node EXCEPT !.childNodes[Head(path)] = WithNode(@, Tail(path), new)]

\* The qualified name of an attribute
AttrName(attr) == IF attr[2] = null THEN attr[3] ELSE attr[2] \o <<":">> \o attr[3]

\* Element.setAttribute(name, value): the first attribute with that
\* qualified name gets the value; without one, an attribute of no namespace
\* and of that local name is appended
setAttribute(ele, name, value) ==
  IF \E i \in 1..Len(ele.attributes) : AttrName(ele.attributes[i]) = name
    THEN LET i == CHOOSE i \in 1..Len(ele.attributes) :
                    /\ AttrName(ele.attributes[i]) = name
                    /\ \A j \in 1..(i - 1) : AttrName(ele.attributes[j]) # name
         IN  [ele EXCEPT !.attributes[i][4] = value]
    ELSE [ele EXCEPT !.attributes = Append(@, Attr(null, null, name, value))]

\* Element.setAttributeNS(namespace, name, value): the attribute of that
\* namespace and local name gets the value; without one, it is appended
setAttributeNS(ele, namespace, name, value) ==
  LET qName == extractQName(name)
      same(i) == ele.attributes[i][1] = namespace /\ ele.attributes[i][3] = qName[2]
  IN  IF \E i \in 1..Len(ele.attributes) : same(i)
        THEN [ele EXCEPT !.attributes[CHOOSE i \in 1..Len(ele.attributes) : same(i)][4] = value]
        ELSE [ele EXCEPT !.attributes = Append(@, Attr(namespace, qName[1], qName[2], value))]

\* Element.removeAttribute(name): the first attribute with that qualified
\* name is removed
removeAttribute(ele, name) ==
  IF \E i \in 1..Len(ele.attributes) : AttrName(ele.attributes[i]) = name
    THEN LET i == CHOOSE i \in 1..Len(ele.attributes) :
                    /\ AttrName(ele.attributes[i]) = name
                    /\ \A j \in 1..(i - 1) : AttrName(ele.attributes[j]) # name
         IN  [ele EXCEPT !.attributes = SubSeq(@, 1, i - 1) \o SubSeq(@, i + 1, Len(@))]
    ELSE ele

\* Element.removeAttributeNS(namespace, localName)
removeAttributeNS(ele, namespace, localName) ==
  LET same(i) == ele.attributes[i][1] = namespace /\ ele.attributes[i][3] = localName
  IN  IF \E i \in 1..Len(ele.attributes) : same(i)
        THEN LET i == CHOOSE i \in 1..Len(ele.attributes) : same(i)
             IN  [ele EXCEPT !.attributes = SubSeq(@, 1, i - 1) \o SubSeq(@, i + 1, Len(@))]
        ELSE ele

\* An argument that is not given
undefined == <<"undefined">>

\* node.parentNode, as a path
Parent(path) == SubSeq(path, 1, Len(path) - 1)

\* node.lookupNamespaceURI(prefix) on the node at the path, as the DOM
\* standard locates a namespace: an element answers with its own namespace
\* when its prefix is the one asked for, else with the value of its
\* declaration of the prefix (xmlns="..." for the prefix null; null when
\* the value is empty), else its parent element
\* does; a document asks its document element; a doctype and a fragment
\* answer null; any other node asks its parent element
RECURSIVE lookupNamespaceURI(_, _, _)
lookupNamespaceURI(doc, path, prefix) ==
  LET node == NodeAt(doc, path)
      attrs == node.attributes
      Declares(attr) ==
        /\ attr[1] = XMLNS_NS
        /\ IF prefix = null THEN attr[2] = null /\ attr[3] = Xmlns
                            ELSE attr[2] = Xmlns /\ attr[3] = prefix
      up == IF Len(path) > 0 /\ NodeAt(doc, Parent(path)).nodeType = "Element"
              THEN lookupNamespaceURI(doc, Parent(path), prefix)
              ELSE null
  IN  IF node.nodeType = "Element"
        THEN IF node.namespaceURI # null /\ node.prefix = prefix
               THEN node.namespaceURI
             ELSE IF \E i \in 1..Len(attrs) : Declares(attrs[i])
               THEN OrNull(attrs[CHOOSE i \in 1..Len(attrs) :
                                   /\ Declares(attrs[i])
                                   /\ \A j \in 1..(i - 1) : ~Declares(attrs[j])][4])
             ELSE up
      ELSE IF node.nodeType = "Document"
        THEN IF documentElement(doc) = 0 THEN null
             ELSE lookupNamespaceURI(doc, <<documentElement(doc)>>, prefix)
      ELSE IF node.nodeType \in {"DocumentType", "DocumentFragment"} THEN null
      ELSE up

\* ele.isDefaultNamespace(namespace)
isDefaultNamespace(doc, path, namespace) ==
  lookupNamespaceURI(doc, path, null) = OrNull(namespace)

\* att(namespace, name, value) and att(name, value) on the element at the
\* path, lines 323-347: without a namespace argument, a name with the
\* prefix xmlns is in the XMLNS namespace, a name with another prefix in
\* the namespace the element looks up for it, a name without prefix in the
\* looked up default namespace when the option inheritNS is on; the
\* attribute is set in the namespace unless there is none or it is the
\* default namespace
SetAtt(doc, path, namespace, name, value) ==
  LET attQName == extractQName(name)
      ns == IF namespace # undefined THEN namespace
            ELSE IF attQName[1] = Xmlns THEN XMLNS_NS
            ELSE IF attQName[1] # null THEN lookupNamespaceURI(doc, path, attQName[1])
            ELSE IF inheritNS THEN lookupNamespaceURI(doc, path, attQName[1])
            ELSE undefined
  IN  WithNode(doc, path,
               IF ns # null /\ ns # undefined /\ ~isDefaultNamespace(doc, path, ns)
                 THEN setAttributeNS(NodeAt(doc, path), ns, name, value)
                 ELSE setAttribute(NodeAt(doc, path), name, value))

\* att(obj), lines 274-283: one att(name, value) for each entry of the
\* object, here a sequence of <<name, value>>
RECURSIVE SetAtts(_, _, _)
SetAtts(doc, path, attributes) ==
  IF Len(attributes) = 0 THEN doc
  ELSE SetAtts(SetAtt(doc, path, undefined, Head(attributes)[1], Head(attributes)[2]),
               path, Tail(attributes))

\* Lines 642-652 of _node: the namespace taken from an attribute xmlns, or
\* from an attribute xmlns:prefix for the prefix of the element name; the
\* last such entry counts
RECURSIVE NamespaceOverride(_, _, _)
NamespaceOverride(attributes, prefix, namespace) ==
  IF Len(attributes) = 0 THEN namespace
  ELSE LET attName == Head(attributes)[1]
           attValue == Head(attributes)[2]
           attQName == extractQName(attName)
       IN  NamespaceOverride(Tail(attributes), prefix,
             IF attName = Xmlns THEN attValue
             ELSE IF attQName[1] = Xmlns /\ attQName[2] = prefix THEN attValue
             ELSE namespace)

RootName == <<"R", "O", "O", "T">>

MaxNodes == 3

\* The number of nodes below the document, attributes included, its
\* doctype aside
RECURSIVE Size(_)
Size(node) ==
  IF node.nodeType = "Element"
    THEN 1 + Len(node.attributes) + Size([nodeType |-> "Document", childNodes |-> node.childNodes])
  ELSE IF node.nodeType \in {"Document", "DocumentFragment"}
    THEN IF Len(node.childNodes) = 0 THEN 0
         ELSE Size(Head(node.childNodes)) +
              Size([nodeType |-> "Document", childNodes |-> Tail(node.childNodes)])
  ELSE IF node.nodeType = "DocumentType" THEN 0
  ELSE 1

\* dtd(options), lines 452-471
dtd(pubID, sysID) ==
  /\ status = "idle"
  /\ LET docType == DocType(IF documentElement(tree) # 0
                              THEN tagName(tree.childNodes[documentElement(tree)])
                              ELSE RootName,
                            pubID, sysID)
     IN  tree' = IF doctype(tree) # 0
                   THEN replaceChild(tree, docType, doctype(tree))
                   ELSE insertBefore(tree, docType, documentElement(tree))
  /\ UNCHANGED <<hasNamespaces, requireWellFormed, noDoubleEncoding, status, stack,
                 heap, prefixIndex, level, currentNode, out, exception, generated,
                 raised, calls, otherOps, inheritNS>>

\* Lines 630-653 of _node: the namespace of the new element when none is
\* given: the one the parent of the node looks up for the prefix of the
\* name when the option inheritNS is on, overridden by a declaration among
\* the attributes
NodeNamespace(this, namespace, name, attributes) ==
  IF namespace # null THEN namespace
  ELSE NamespaceOverride(attributes, extractQName(name)[1],
                         IF inheritNS /\ Len(this) > 0
                           THEN lookupNamespaceURI(tree, Parent(this), extractQName(name)[1])
                           ELSE null)

\* _node without the update of the doctype
_nodeKeepingDoctype(this, namespace, name, attributes) ==
  /\ status = "idle"
  /\ LET ns == NodeNamespace(this, namespace, name, attributes)
         legal == xml_isName(name)
         refused == \/ ~HasChildren(NodeAt(tree, this))
                    \/ Len(this) = 0 /\ documentElement(tree) # 0
         created == createElement(ns, name)
         raises == ~legal \/ created.nodeType = "DOMError"
         appended == appendChild(tree, this, created)
         child == this \o <<Len(NodeAt(appended, this).childNodes)>>
     IN  IF raises THEN UNCHANGED <<tree, hasNamespaces>>
         ELSE IF refused
           THEN /\ tree' = tree
                /\ hasNamespaces' = (hasNamespaces \/ ns # null \/ UsesNamespaces(tree))
         ELSE /\ Size(tree) + Len(attributes) < MaxNodes
              /\ tree' = SetAtts(appended, child, attributes)
              /\ hasNamespaces' = (hasNamespaces \/ ns # null \/ UsesNamespaces(tree'))
  /\ UNCHANGED <<requireWellFormed, noDoubleEncoding, status, stack, heap,
                 prefixIndex, level, currentNode, out, exception, generated,
                 raised, calls, otherOps, inheritNS>>

\* _node(namespace, name, attributes), lines 627-690, called on the node at
\* the path this, which is any node of the document.  The name is checked
\* first (line 659, this._validate.name; the Validator class is not in
\* src, the names it lets through are those of the Name production, which
\* createElement requires of its argument as well): any other name raises an
\* error before anything is created.  Then the element is created in its
\* namespace (lines 661-664), which raises an error for a name and a
\* namespace that do not go together and else marks the document as one
\* with namespaces when the namespace is not null, and appended (line 666).
\* The append raises an error, after the creation and with the tree
\* unchanged, on a node that cannot have children (a doctype, a text, a
\* comment, a CDATA section, a processing instruction) and on a document
\* that has a document element.  When the new element is the document
\* element, the doctype is replaced by one with its tag name (lines
\* 669-676); then the attributes are set (lines 679-681)
_node(this, namespace, name, attributes) ==
  /\ status = "idle"
  /\ LET ns == NodeNamespace(this, namespace, name, attributes)
         legal == xml_isName(name)
         refused == \/ ~HasChildren(NodeAt(tree, this))
                    \/ Len(this) = 0 /\ documentElement(tree) # 0
         created == createElement(ns, name)
         raises == ~legal \/ created.nodeType = "DOMError"
         appended == appendChild(tree, this, created)
         child == this \o <<Len(NodeAt(appended, this).childNodes)>>
         oldDocType == doctype(appended)
         updated ==
           IF Len(this) = 0 /\ oldDocType # 0
             THEN replaceChild(appended,
                               DocType(tagName(appended.childNodes[documentElement(appended)]),
                                       appended.childNodes[oldDocType].publicId,
                                       appended.childNodes[oldDocType].systemId),
                               oldDocType)
             ELSE appended
     IN  IF raises THEN UNCHANGED <<tree, hasNamespaces>>
         ELSE IF refused
           THEN /\ tree' = tree
                /\ hasNamespaces' = (hasNamespaces \/ ns # null \/ UsesNamespaces(tree))
         ELSE /\ Size(tree) + Len(attributes) < MaxNodes
              /\ tree' = SetAtts(updated, child, attributes)
              /\ hasNamespaces' = (hasNamespaces \/ ns # null \/ UsesNamespaces(tree'))
  /\ UNCHANGED <<requireWellFormed, noDoubleEncoding, status, stack, heap,
                 prefixIndex, level, currentNode, out, exception, generated,
                 raised, calls, otherOps, inheritNS>>

\* set(options), lines 127-132, for the option inheritNS
set(options) ==
  /\ status = "idle"
  /\ inheritNS' = options
  /\ UNCHANGED <<tree, hasNamespaces, requireWellFormed, noDoubleEncoding, status,
                 stack, heap, prefixIndex, level, currentNode, out, exception,
                 generated, raised, calls, otherOps>>

\* remove(), lines 264-268, on a node that has a parent
remove(this) ==
  /\ status = "idle" /\ Len(this) > 0
  /\ tree' = _remove(tree, this)
  /\ otherOps' = TRUE
  /\ UNCHANGED <<hasNamespaces, requireWellFormed, noDoubleEncoding, status, stack,
                 heap, prefixIndex, level, currentNode, out, exception, generated,
                 raised, calls, inheritNS>>

\* att(namespace, name, value) and att(name, value), lines 271-350, on an
\* element
att(this, namespace, name, value) ==
  /\ status = "idle" /\ NodeAt(tree, this).nodeType = "Element"
  /\ Size(SetAtt(tree, this, namespace, name, value)) <= MaxNodes
  /\ tree' = SetAtt(tree, this, namespace, name, value)
  /\ hasNamespaces' = (hasNamespaces \/ UsesNamespaces(tree'))
  /\ otherOps' = TRUE
  /\ UNCHANGED <<requireWellFormed, noDoubleEncoding, status, stack, heap,
                 prefixIndex, level, currentNode, out, exception, generated,
                 raised, calls, inheritNS>>

\* removeAtt(namespace, name) and removeAtt(name), lines 353-382, on an
\* element
removeAtt(this, namespace, name) ==
  /\ status = "idle" /\ NodeAt(tree, this).nodeType = "Element"
  /\ tree' = WithNode(tree, this,
                      IF namespace = undefined
                        THEN removeAttribute(NodeAt(tree, this), name)
                        ELSE removeAttributeNS(NodeAt(tree, this), namespace, name))
  /\ otherOps' = TRUE
  /\ UNCHANGED <<hasNamespaces, requireWellFormed, noDoubleEncoding, status, stack,
                 heap, prefixIndex, level, currentNode, out, exception, generated,
                 raised, calls, inheritNS>>

\* The last lines of txt, com, raw, dat and ins: the new node is appended
\* to the element the method is called on
AppendToElement(this, child) ==
  /\ status = "idle" /\ Size(tree) < MaxNodes
  /\ NodeAt(tree, this).nodeType = "Element"
  /\ tree' = appendChild(tree, this, child)
  /\ otherOps' = TRUE
  /\ UNCHANGED <<hasNamespaces, requireWellFormed, noDoubleEncoding, status, stack,
                 heap, prefixIndex, level, currentNode, out, exception, generated,
                 raised, calls, inheritNS>>

\* txt(content), lines 385-393
txt(this, content) == AppendToElement(this, TextNode(content))

\* com(content), lines 396-404
com(this, content) == AppendToElement(this, CommentNode(content))

\* raw(content), lines 407-417: a text node; the mark _isRawNode is kept on
\* the builder object, not in the tree
raw(this, content) == AppendToElement(this, TextNode(content))

\* dat(content), lines 420-428
dat(this, content) == AppendToElement(this, CDataNode(content))

\* ins(target, content), lines 431-440
ins(this, target, content) == AppendToElement(this, Instruction(target, content))

\* The nodes import(node) clones, lines 482-501: the document element of a
\* document (none raises an error), the children of a fragment, or the node
Imported(node) ==
  IF node.nodeType = "Document"
    THEN IF documentElement(node) = 0 THEN <<>>
         ELSE <<node.childNodes[documentElement(node)]>>
  ELSE IF node.nodeType = "DocumentFragment" THEN node.childNodes
  ELSE <<node>>

RECURSIVE AppendAll(_, _, _)
AppendAll(doc, path, children) ==
  IF Len(children) = 0 THEN doc
  ELSE AppendAll(appendChild(doc, path, Head(children)), path, Tail(children))

\* The number of nodes of a subtree
NodeCount(node) == Cardinality(Paths(node))

RECURSIVE NodeCounts(_)
NodeCounts(nodes) ==
  IF Len(nodes) = 0 THEN 0 ELSE NodeCount(Head(nodes)) + NodeCounts(Tail(nodes))

\* import(node), lines 474-505, on an element (a document has no owner
\* document, which raises an error)
import(this, node) ==
  /\ status = "idle" /\ NodeAt(tree, this).nodeType = "Element"
  /\ Size(tree) + NodeCounts(Imported(node)) <= MaxNodes
  /\ tree' = AppendAll(tree, this, Imported(node))
  /\ otherOps' = TRUE
  /\ UNCHANGED <<hasNamespaces, requireWellFormed, noDoubleEncoding, status, stack,
                 heap, prefixIndex, level, currentNode, out, exception, generated,
                 raised, calls, inheritNS>>

PubIDs == {EmptyString, <<"p", "u", "b">>}
SysIDs == {EmptyString, <<"s", "y", "s">>}
\* The identifiers dtd() is called with: a public one, a system one
DtdOptions == { <<<<"p", "u", "b">>, EmptyString>>, <<EmptyString, <<"s", "y", "s">>>> }
\* The names _node is called with, each with the namespace argument: a,
\* p:a, and p:a in urn:a
QNames == { <<null, NameA>>, <<null, PrefixP \o <<":">> \o NameA>>,
            <<NsA, PrefixP \o <<":">> \o NameA>> }
\* And those that raise an error: 1a, which is not a name, p:a in the empty
\* namespace, xml:a in urn:a, p:a in the XMLNS namespace and a:b:c, which
\* is not a qualified name
BadQNames == { <<NsA, <<"1">> \o NameA>>,
               <<EmptyString, PrefixP \o <<":">> \o NameA>>,
               <<NsA, Xml \o <<":">> \o NameA>>,
               <<XMLNS_NS, PrefixP \o <<":">> \o NameA>>,
               <<NsA, <<"a", ":", "b", ":", "c">>>> }
XmlnsP == Xmlns \o <<":">> \o PrefixP
AttributeObjects == { <<>>, << <<Xmlns, NsA>> >>, << <<XmlnsP, NsA>> >> }
\* The calls of _node: namespace, name, attributes; an attribute xmlns=""
\* gives a and p:a the empty namespace
NodeCalls ==
  {<<n[1], n[2], attributes>> : n \in QNames, attributes \in AttributeObjects}
  \cup {<<n[1], n[2], <<>>>> : n \in BadQNames}
  \cup {<<null, name, << <<Xmlns, EmptyString>> >> >> :
          name \in {NameA, PrefixP \o <<":">> \o NameA}}
\* att and removeAtt calls: namespace (or none), name, value
AttCalls == { <<undefined, NameK, ValueV>>, <<undefined, NameK, NameC>>,
             <<undefined, PrefixP \o <<":">> \o NameK, ValueV>>,
             <<NsA, NameK, ValueV>> }
RemoveAttCalls == { <<undefined, NameK>>, <<NsA, NameK>> }
ImportNodes ==
  { Element(NameA, null, null, <<>>, <<>>),
    Document(<<Element(NameA, null, null, <<>>, <<>>)>>),
    Document(<<>>),
    DocumentFragment(<<CommentNode(ValueV)>>) }

NextBuilder ==
  \/ \E options \in DtdOptions : dtd(options[1], options[2])
  \/ \E this \in Paths(tree), n \in NodeCalls : _node(this, n[1], n[2], n[3])
  \/ \E this \in Paths(tree) : remove(this)
  \/ \E options \in BOOLEAN : set(options)
  \/ \E this \in Paths(tree), a \in AttCalls : att(this, a[1], a[2], a[3])
  \/ \E this \in Paths(tree), a \in RemoveAttCalls : removeAtt(this, a[1], a[2])
  \/ \E this \in Paths(tree) : txt(this, ValueV)
  \/ \E this \in Paths(tree) : com(this, ValueV)
  \/ \E this \in Paths(tree) : raw(this, ValueV)
  \/ \E this \in Paths(tree) : dat(this, ValueV)
  \/ \E this \in Paths(tree) : ins(this, NameK, ValueV)
  \/ \E this \in Paths(tree), node \in ImportNodes : import(this, node)

\* A new document, before any serialization and with the default options
InitBuilder ==
  InitWith({Document(<<>>)}) /\ hasNamespaces = FALSE /\ requireWellFormed = FALSE

SpecBuilder == InitBuilder /\ [][NextBuilder]_vars

\* The doctype nodes among the children of the document
DocTypes == {i \in 1..Len(tree.childNodes) : tree.childNodes[i].nodeType = "DocumentType"}

\* At most one doctype, before the document element, named after it, or
\* ROOT while there is none
DoctypeInvariant ==
  /\ Cardinality(DocTypes) <= 1
  /\ (doctype(tree) # 0 /\ documentElement(tree) # 0) =>
       doctype(tree) < documentElement(tree)
  /\ doctype(tree) # 0 =>
       tree.childNodes[doctype(tree)].name =
         IF documentElement(tree) # 0
           THEN tagName(tree.childNodes[documentElement(tree)])
           ELSE RootName

\* A dtd() leaves a doctype with the identifiers it was given, at the place
\* of the one it replaces and with every other child unchanged; the creation
\* of the document element leaves the doctype at its place with the
\* identifiers it had
DoctypeSteps ==
  /\ \A pubID \in PubIDs, sysID \in SysIDs :
       dtd(pubID, sysID) =>
         /\ doctype(tree') # 0
         /\ tree'.childNodes[doctype(tree')].publicId = pubID
         /\ tree'.childNodes[doctype(tree')].systemId = sysID
         /\ doctype(tree) # 0 =>
              /\ doctype(tree') = doctype(tree)
              /\ Len(tree'.childNodes) = Len(tree.childNodes)
              /\ \A i \in 1..Len(tree.childNodes) :
                   i # doctype(tree) => tree'.childNodes[i] = tree.childNodes[i]
  /\ (documentElement(tree) = 0 /\ documentElement(tree') # 0 /\ doctype(tree) # 0) =>
       /\ doctype(tree') = doctype(tree)
       /\ tree'.childNodes[doctype(tree')].publicId =
            tree.childNodes[doctype(tree)].publicId
       /\ tree'.childNodes[doctype(tree')].systemId =
            tree.childNodes[doctype(tree)].systemId

\* C30: after any sequence of dtd() and element creations on one document
\* (no other builder method called), the document has at most one doctype,
\* the doctype precedes the document element and carries its tag name (ROOT
\* while there is no document element); a later dtd() replaces the doctype
\* in place with the new public and system identifiers, and the creation of
\* the document element keeps the identifiers of the doctype.
C30_OneDoctypeNamedAfterRoot ==
  /\ [](~otherOps => DoctypeInvariant)
  /\ [][~otherOps' => DoctypeSteps]_vars

\* After dtd() and element creations only, the document holds a doctype
\* with a public identifier and the tag name of the document element p:a,
\* then that element with one child
C30_Witness ==
  /\ ~otherOps
  /\ tree.nodeType = "Document" /\ Len(tree.childNodes) = 2
  /\ tree.childNodes[1] = DocType(PrefixP \o <<":">> \o NameA, <<"p", "u", "b">>, EmptyString)
  /\ tree.childNodes[2].nodeType = "Element"
  /\ tagName(tree.childNodes[2]) = PrefixP \o <<":">> \o NameA
  /\ Len(tree.childNodes[2].childNodes) = 1

-----------------------------------------------------------------------------
(* The scenario of a root, a child that changes the default namespace and  *)
(* a grandchild, serialized by the writer; the namespace the builder gives *)
(* such a grandchild is the one _node looks up, lines 633-637              *)

\* The trees of C4: a root in urn:a, its child in urn:b and a grandchild,
\* all without prefix; the root and the child carry at most the default
\* declaration of their own namespace, the grandchild no attribute.  The
\* grandchild is in no namespace (namespaceURI null), in urn:b as its
\* parent, or in urn:a as its grandparent
C4Tree ==
  /\ hasNamespaces
  /\ tree.nodeType = "Element" /\ tree.prefix = null /\ tree.namespaceURI = NsA
  /\ tree.attributes \in {<<>>, <<XmlnsDefault(NsA)>>}
  /\ Len(tree.childNodes) = 1
  /\ LET child == tree.childNodes[1]
     IN  /\ child.nodeType = "Element" /\ child.prefix = null
         /\ child.namespaceURI = NsB
         /\ child.attributes \in {<<>>, <<XmlnsDefault(NsB)>>}
         /\ Len(child.childNodes) = 1
         /\ child.childNodes[1] \in
              {Element(NameC, null, n, <<>>, <<>>) : n \in {null, NsB, NsA}}

\* The child is emitted under its bare name with xmlns="urn:b" as its only
\* declaration; the grandchild is serialized in the context namespace urn:b
\* under its bare local name
C4ChildDeclares ==
  /\ EventsAt(out, <<1>>, "attributes") # {} =>
       /\ Cardinality(DefaultDeclarations(AttributesAt(out, <<1>>), NsB)) = 1
       /\ Cardinality(Declarations(AttributesAt(out, <<1>>))) = 1
       /\ EmittedPrefix(out, <<1>>) = null
  /\ \A k \in 1..Len(stack) : stack[k].path = <<1, 1>> => stack[k].namespace = NsB
  /\ \A i \in EventsAt(out, <<1, 1>>, "beginElement") : out[i].name = NameC

\* The statement of C4 as the specification has it, for the grandchild that
\* has no namespace of its own: it is emitted without namespace declaration
C4_GrandchildWithoutNamespaceUndeclared ==
  (C4Tree /\ tree.childNodes[1].childNodes[1].namespaceURI = null) =>
    /\ C4ChildDeclares
    /\ \A i \in EventsAt(out, <<1, 1>>, "attributes") : out[i].attributes = <<>>

\* C4: with a root in urn:a and an unprefixed child in urn:b, the child is
\* emitted with the default declaration xmlns="urn:b" as its only
\* declaration, and the grandchild is serialized in the context namespace
\* urn:b under its bare local name.  The grandchild is emitted with no
\* namespace declaration exactly when its namespaceURI is urn:b; with
\* namespaceURI null it is emitted with xmlns="" and with namespaceURI
\* urn:a with xmlns="urn:a", each as its only attribute.  The namespace
\* that _node looks up for an element created on the child without a
\* namespace, inheritNS on, is the one of the root, urn:a.
C4_ChildDeclaresGrandchildInherits ==
  C4Tree =>
    /\ C4ChildDeclares
    /\ \A i \in EventsAt(out, <<1, 1>>, "attributes") :
         IF tree.childNodes[1].childNodes[1].namespaceURI = NsB
           THEN out[i].attributes = <<>>
           ELSE /\ Len(out[i].attributes) = 1
                /\ DefaultDeclarations(out[i].attributes,
                     OrEmpty(tree.childNodes[1].childNodes[1].namespaceURI)) = {1}
    /\ LET doc == Document(<<tree>>)
           this == <<1, 1>>
       IN  lookupNamespaceURI(doc, Parent(this), null) = NsA

\* The grandchild in no namespace has been emitted, with xmlns="", under a
\* child that carries no attribute
C4_Witness ==
  /\ C4Tree /\ status = "running"
  /\ tree.childNodes[1].attributes = <<>>
  /\ tree.childNodes[1].childNodes[1].namespaceURI = null
  /\ EventsAt(out, <<1, 1>>, "attributes") # {}
  /\ AttributesAt(out, <<1, 1>>)[1][4] = EmptyString
====
